---- MODULE Spec2Model ----
(***************************************************************************)
(* Model of the MCP tool servers of Agent-Code-Tools (math, regex, string, *)
(* date): the call-tool / list-tools request handlers, the tool functions  *)
(* they dispatch to, and the process that attaches the one protocol        *)
(* session to the stdio and the streamable HTTP transport.                 *)
(*                                                                         *)
(* JavaScript values are modelled as follows.  A string that the code      *)
(* inspects character by character is a sequence of one-character strings; *)
(* any other string is a TLA+ string.  An object is a function from its    *)
(* keys; a key that is missing (undefined) is not in the DOMAIN.  A JS     *)
(* number is a record: finite rationals [k |-> "fin", n, d], the           *)
(* infinities [k |-> "inf", s] and [k |-> "nan"].                          *)
(***************************************************************************)
EXTENDS Integers, Sequences, FiniteSets, TLC

\* ---------------------------------------------------------------- bounds
\* requests the clients issue in a run, and how many of the first of them
\* may be call-tool requests
MaxRequests == 2
MaxCalls == 2
MaxId == 2
MaxClock == 3
\* HTTP requests the listener takes in a run of the HTTP front end
MaxExchanges == 3
\* length of the texts string_compare, string_transform, string_validate,
\* regex_split and math_sanitize_number are given
MaxText == 3
\* number of operations string_transform is given
MaxOperations == 2
\* number of rules string_validate is given
MaxRules == 2
\* the limits regex_split is given
MaxLimit == 3
\* number of elements math_statistics is given
MaxNumbers == 3

\* ------------------------------------------------------- generic helpers
\* const x = value; ... x ...: the value of `Body` for x = value.
With(value, Body(_)) == Body(value)

Has(obj, key) == key \in DOMAIN obj

EmptyObject == [k \in {} |-> 0]

RECURSIVE JoinChars(_)
JoinChars(s) == IF s = <<>> THEN "" ELSE Head(s) \o JoinChars(Tail(s))

Abs(x) == IF x < 0 THEN -x ELSE x

RECURSIVE Gcd(_, _)
Gcd(a, b) == IF b = 0 THEN a ELSE Gcd(b, a % b)

\* ------------------------------------------------------------ JS numbers
Fin(n, d) ==
  LET g == Gcd(Abs(n), d)
  IN [k |-> "fin", n |-> n \div g, d |-> d \div g]

Inf(s) == [k |-> "inf", s |-> s]
NaN == [k |-> "nan"]

Sign(x) == IF x.k = "fin" THEN (IF x.n < 0 THEN -1 ELSE IF x.n > 0 THEN 1 ELSE 0)
           ELSE IF x.k = "inf" THEN x.s ELSE 0

JsNeg(x) == IF x.k = "fin" THEN Fin(-x.n, x.d)
            ELSE IF x.k = "inf" THEN Inf(-x.s) ELSE NaN

JsAdd(x, y) ==
  IF x.k = "nan" \/ y.k = "nan" THEN NaN
  ELSE IF x.k = "inf" /\ y.k = "inf" THEN (IF x.s = y.s THEN x ELSE NaN)
  ELSE IF x.k = "inf" THEN x
  ELSE IF y.k = "inf" THEN y
  ELSE Fin(x.n * y.d + y.n * x.d, x.d * y.d)

JsSub(x, y) == JsAdd(x, JsNeg(y))

JsMul(x, y) ==
  IF x.k = "nan" \/ y.k = "nan" THEN NaN
  ELSE IF x.k = "inf" \/ y.k = "inf"
       THEN (IF Sign(x) * Sign(y) = 0 THEN NaN ELSE Inf(Sign(x) * Sign(y)))
  ELSE Fin(x.n * y.n, x.d * y.d)

\* Division: x / 0 is an infinity (NaN for 0 / 0), never an exception.
JsDiv(x, y) ==
  IF x.k = "nan" \/ y.k = "nan" THEN NaN
  ELSE IF x.k = "inf" /\ y.k = "inf" THEN NaN
  ELSE IF x.k = "inf" THEN Inf(IF Sign(y) < 0 THEN -x.s ELSE x.s)
  ELSE IF y.k = "inf" THEN Fin(0, 1)
  ELSE IF y.n = 0 THEN (IF x.n = 0 THEN NaN ELSE Inf(Sign(x)))
  ELSE Fin(x.n * y.d * Sign(y), x.d * Abs(y.n))

NumberIsFinite(x) == x.k = "fin"
NumberIsInteger(x) == x.k = "fin" /\ x.d = 1

\* ------------------------------------------------------------------ JSON
\* JSON.stringify(obj, null, 2) of a ToolResult-like object: the text
\* is the list of its members in insertion order; a member whose value is
\* undefined is left out.
KeyOrder == <<"success", "result", "error", "metadata">>

JSONstringify(obj) ==
  LET keys == SelectSeq(KeyOrder, LAMBDA key : Has(obj, key))
  IN [i \in 1..Len(keys) |-> [key |-> keys[i], value |-> obj[keys[i]]]]

\* JSON.parse of such a text: the object with the members of the text.
JSONparse(text) ==
  LET Index(key) == CHOOSE i \in 1..Len(text) : text[i].key = key
  IN [key \in {text[i].key : i \in 1..Len(text)} |-> text[Index(key)].value]

TextContent(toolResult) ==
  <<[type |-> "text", text |-> JSONstringify(toolResult)]>>

\* ------------------------------------------------------------ the build
\* The servers import the tool classes from ./tools/*.js, the compiled
\* output.  `build` says which one is in place: "source", compiled from
\* the TypeScript sources as they are, or "compiled", the compiled files
\* the repository holds.
VARIABLE build

\* ------------------------------------------------ MathTools.calculate
Digits == {"0", "1", "2", "3", "4", "5", "6", "7", "8", "9"}
Operators == {"+", "-", "*", "/"}
AllowedChars == Digits \cup Operators \cup {"(", ")", ".", " "}

DigitValue(c) == CHOOSE n \in 0..9 : <<"0", "1", "2", "3", "4", "5", "6", "7", "8", "9">>[n + 1] = c

\* expression.replace(/[^0-9+\-*/().\ ]/g, '')
Sanitize(expression) == SelectSeq(expression, LAMBDA c : c \in AllowedChars)

\* !sanitized.trim(): only spaces are left of the white space
IsBlank(s) == \A i \in 1..Len(s) : s[i] = " "

\* sanitized.replace(/\s/g, '')
StripSpaces(s) == SelectSeq(s, LAMBDA c : c # " ")

\* /[+\-*/]{2,}/.test(...)
HasConsecutiveOperators(s) ==
  \E i \in 1..(Len(s) - 1) : s[i] \in Operators /\ s[i + 1] \in Operators

\* The evaluator, Function(`"use strict"; return (${sanitized})`)(), on
\* the characters that pass the sanitizer.  Lexer: numeric literals
\* (digits with an optional fraction), operators, parentheses.
RECURSIVE DigitsEnd(_, _)
DigitsEnd(s, i) == IF i <= Len(s) /\ s[i] \in Digits THEN DigitsEnd(s, i + 1) ELSE i

RECURSIVE DigitsValue(_, _, _, _)
DigitsValue(s, i, j, acc) ==
  IF i >= j THEN acc ELSE DigitsValue(s, i + 1, j, acc * 10 + DigitValue(s[i]))

RECURSIVE Pow10(_)
Pow10(n) == IF n = 0 THEN 1 ELSE 10 * Pow10(n - 1)

\* The numeric literal that starts at s[i]: [ok, v, next].  A literal with
\* a leading zero before another digit is an error in strict mode; a lone
\* "." is no literal.
NumericLiteral(s, i) ==
  LET j == DigitsEnd(s, i)
      hasDot == j <= Len(s) /\ s[j] = "."
      m == IF hasDot THEN DigitsEnd(s, j + 1) ELSE j
      intPart == DigitsValue(s, i, j, 0)
      fracLen == IF hasDot THEN m - (j + 1) ELSE 0
      fracPart == IF hasDot THEN DigitsValue(s, j + 1, m, 0) ELSE 0
  IN [ok |-> /\ (j > i \/ fracLen > 0)
             /\ ~(j - i > 1 /\ s[i] = "0"),
      v |-> Fin(intPart * Pow10(fracLen) + fracPart, Pow10(fracLen)),
      next |-> m]

RECURSIVE Tokenize(_, _)
Tokenize(s, i) ==
  IF i > Len(s) THEN <<>>
  ELSE IF s[i] = " " THEN Tokenize(s, i + 1)
  ELSE IF s[i] \in Digits \cup {"."}
    THEN LET lit == NumericLiteral(s, i)
         IN IF lit.ok
            THEN <<[k |-> "num", c |-> "", v |-> lit.v]>> \o Tokenize(s, lit.next)
            ELSE <<[k |-> "bad", c |-> s[i], v |-> NaN]>>
  ELSE IF s[i] \in Operators
    THEN <<[k |-> "op", c |-> s[i], v |-> NaN]>> \o Tokenize(s, i + 1)
  ELSE IF s[i] = "("
    THEN <<[k |-> "lp", c |-> "(", v |-> NaN]>> \o Tokenize(s, i + 1)
  ELSE IF s[i] = ")"
    THEN <<[k |-> "rp", c |-> ")", v |-> NaN]>> \o Tokenize(s, i + 1)
  ELSE <<[k |-> "bad", c |-> s[i], v |-> NaN]>>

Is(t, i, kind) == i <= Len(t) /\ t[i].k = kind
IsOp(t, i, ops) == i <= Len(t) /\ t[i].k = "op" /\ t[i].c \in ops

\* Parser by precedence: additive, multiplicative, unary, call, primary.
\* A result is [ok, v, i, te]: parsed, value, next token, and whether a
\* TypeError is raised when the (well-formed) expression is run, which
\* is the case when a number is called as in "5(2)".
ParseFail == [ok |-> FALSE, v |-> NaN, i |-> 0, te |-> FALSE]

RECURSIVE ParseAdditive(_, _), ParseAdditiveRest(_, _), ParseMultiplicative(_, _),
          ParseMultiplicativeRest(_, _), ParseUnary(_, _), ParseCall(_, _),
          ParseCallRest(_, _), ParsePrimary(_, _)

ParsePrimary(t, i) ==
  IF Is(t, i, "num") THEN [ok |-> TRUE, v |-> t[i].v, i |-> i + 1, te |-> FALSE]
  ELSE IF Is(t, i, "lp")
    THEN With(ParseAdditive(t, i + 1), LAMBDA inner :
           IF inner.ok /\ Is(t, inner.i, "rp")
             THEN [inner EXCEPT !.i = inner.i + 1]
             ELSE ParseFail)
  ELSE ParseFail

ParseCallRest(t, left) ==
  IF ~left.ok \/ ~Is(t, left.i, "lp") THEN left
  ELSE IF Is(t, left.i + 1, "rp")
    THEN ParseCallRest(t, [left EXCEPT !.i = left.i + 2, !.te = TRUE])
  ELSE With(ParseAdditive(t, left.i + 1), LAMBDA arg :
         IF arg.ok /\ Is(t, arg.i, "rp")
           THEN ParseCallRest(t, [left EXCEPT !.i = arg.i + 1, !.te = TRUE])
           ELSE ParseFail)

ParseCall(t, i) == ParseCallRest(t, ParsePrimary(t, i))

ParseUnary(t, i) ==
  IF IsOp(t, i, {"+", "-"})
    THEN With(ParseUnary(t, i + 1), LAMBDA operand :
           IF ~operand.ok THEN ParseFail
           ELSE IF t[i].c = "-" THEN [operand EXCEPT !.v = JsNeg(operand.v)]
           ELSE operand)
  ELSE ParseCall(t, i)

ParseMultiplicativeRest(t, left) ==
  IF ~left.ok \/ ~IsOp(t, left.i, {"*", "/"}) THEN left
  ELSE With(ParseUnary(t, left.i + 1), LAMBDA right :
         IF ~right.ok THEN ParseFail
         ELSE ParseMultiplicativeRest(t,
                [ok |-> TRUE,
                 v |-> IF t[left.i].c = "*" THEN JsMul(left.v, right.v)
                       ELSE JsDiv(left.v, right.v),
                 i |-> right.i,
                 te |-> left.te \/ right.te]))

ParseMultiplicative(t, i) == ParseMultiplicativeRest(t, ParseUnary(t, i))

ParseAdditiveRest(t, left) ==
  IF ~left.ok \/ ~IsOp(t, left.i, {"+", "-"}) THEN left
  ELSE With(ParseMultiplicative(t, left.i + 1), LAMBDA right :
         IF ~right.ok THEN ParseFail
         ELSE ParseAdditiveRest(t,
                [ok |-> TRUE,
                 v |-> IF t[left.i].c = "+" THEN JsAdd(left.v, right.v)
                       ELSE JsSub(left.v, right.v),
                 i |-> right.i,
                 te |-> left.te \/ right.te]))

ParseAdditive(t, i) == ParseAdditiveRest(t, ParseMultiplicative(t, i))

\* The outcome of evaluating the sanitized text: a value, or the error
\* thrown (a SyntaxError when the text is no expression, a TypeError when
\* it calls a number).
Evaluate(sanitized) ==
  With(Tokenize(sanitized, 1), LAMBDA t :
    With(ParseAdditive(t, 1), LAMBDA r :
      IF ~r.ok \/ r.i # Len(t) + 1
        THEN [threw |-> TRUE, message |-> "SyntaxError", v |-> NaN]
      ELSE IF r.te THEN [threw |-> TRUE, message |-> "TypeError", v |-> NaN]
      ELSE [threw |-> FALSE, message |-> "", v |-> r.v]))

\* MathTools.calculate(expression).  `args` is the arguments object of the
\* request; the handler passes args.expression, which is undefined when the
\* key is missing, and expression.replace then throws inside the try.
calculate(args) ==
  IF ~Has(args, "expression")
    THEN [success |-> FALSE,
          error |-> "Calculation error: " \o "Cannot read properties of undefined (reading 'replace')"]
  ELSE
  LET expression == args.expression
      sanitized == Sanitize(expression)
      evaluated == Evaluate(sanitized)
  IN IF sanitized # expression
       THEN [success |-> FALSE,
             error |-> "Invalid characters in expression. Only numbers, +, -, *, /, (, ), and spaces are allowed."]
     ELSE IF IsBlank(sanitized)
       THEN [success |-> FALSE, error |-> "Empty expression provided"]
     ELSE IF HasConsecutiveOperators(StripSpaces(sanitized))
       THEN [success |-> FALSE,
             error |-> "Calculation error: Malformed expression with consecutive operators"]
     ELSE IF evaluated.threw
       THEN [success |-> FALSE, error |-> "Calculation error: " \o evaluated.message]
     ELSE IF ~NumberIsFinite(evaluated.v)
       THEN [success |-> FALSE,
             error |-> "Result is not a finite number (division by zero or invalid operation)"]
     ELSE [success |-> TRUE,
           result |-> [expression |-> JoinChars(expression),
                       sanitized |-> JoinChars(sanitized),
                       value |-> evaluated.v,
                       type |-> IF NumberIsInteger(evaluated.v) THEN "integer" ELSE "decimal"],
           metadata |-> [originalExpression |-> JoinChars(expression),
                         evaluatedAs |-> JoinChars(sanitized)]]

\* MathTools.calculate of the compiled file: the same without the check
\* for consecutive operators.
calculateCompiled(args) ==
  IF ~Has(args, "expression")
    THEN [success |-> FALSE,
          error |-> "Calculation error: " \o "Cannot read properties of undefined (reading 'replace')"]
  ELSE
  LET expression == args.expression
      sanitized == Sanitize(expression)
      evaluated == Evaluate(sanitized)
  IN IF sanitized # expression
       THEN [success |-> FALSE,
             error |-> "Invalid characters in expression. Only numbers, +, -, *, /, (, ), and spaces are allowed."]
     ELSE IF IsBlank(sanitized)
       THEN [success |-> FALSE, error |-> "Empty expression provided"]
     ELSE IF evaluated.threw
       THEN [success |-> FALSE, error |-> "Calculation error: " \o evaluated.message]
     ELSE IF ~NumberIsFinite(evaluated.v)
       THEN [success |-> FALSE,
             error |-> "Result is not a finite number (division by zero or invalid operation)"]
     ELSE [success |-> TRUE,
           result |-> [expression |-> JoinChars(expression),
                       sanitized |-> JoinChars(sanitized),
                       value |-> evaluated.v,
                       type |-> IF NumberIsInteger(evaluated.v) THEN "integer" ELSE "decimal"],
           metadata |-> [originalExpression |-> JoinChars(expression),
                         evaluatedAs |-> JoinChars(sanitized)]]

\* What calculate hands to Function(...): <<the sanitized text>>, or <<>>
\* when it returns before.
PassedToEvaluator(compiled, args) ==
  IF ~Has(args, "expression") THEN <<>>
  ELSE IF Sanitize(args.expression) # args.expression THEN <<>>
  ELSE IF IsBlank(args.expression) THEN <<>>
  ELSE IF ~compiled /\ HasConsecutiveOperators(StripSpaces(args.expression)) THEN <<>>
  ELSE <<args.expression>>

\* ---------------------------------------------------- MathTools.compare
\* parseFloat of a string argument, and the identity on a number.  The
\* arguments are decimal integer strings or other text.
RECURSIVE DigitPrefix(_)
DigitPrefix(chars) ==
  IF chars # <<>> /\ Head(chars) \in Digits
    THEN <<Head(chars)>> \o DigitPrefix(Tail(chars)) ELSE <<>>

parseFloat(chars) ==
  LET neg == chars # <<>> /\ Head(chars) = "-"
      body == IF chars # <<>> /\ Head(chars) \in {"-", "+"} THEN Tail(chars) ELSE chars
      ds == DigitPrefix(body)
      mag == DigitsValue(ds, 1, Len(ds) + 1, 0)
  IN IF ds = <<>> THEN NaN ELSE Fin(IF neg THEN -mag ELSE mag, 1)

JsLess(x, y) == x.n * y.d < y.n * x.d

compare(args) ==
  LET n1 == IF Has(args, "num1") THEN parseFloat(args.num1) ELSE NaN
      n2 == IF Has(args, "num2") THEN parseFloat(args.num2) ELSE NaN
      operator == IF Has(args, "operator") THEN args.operator ELSE "undefined"
      result == CASE operator = ">" -> JsLess(n2, n1)
                  [] operator = "<" -> JsLess(n1, n2)
                  [] operator = ">=" -> ~JsLess(n1, n2)
                  [] operator = "<=" -> ~JsLess(n2, n1)
                  [] operator \in {"==", "==="} -> n1 = n2
                  [] operator \in {"!=", "!=="} -> n1 # n2
  IN IF ~NumberIsFinite(n1) \/ ~NumberIsFinite(n2)
       THEN [success |-> FALSE, error |-> "Both values must be valid numbers"]
     ELSE IF operator \notin {">", "<", ">=", "<=", "==", "!=", "===", "!=="}
       THEN [success |-> FALSE,
             error |-> "Invalid operator: " \o operator
                       \o ". Use >, <, >=, <=, ==, !=, ===, or !=="]
     ELSE [success |-> TRUE,
           result |-> [comparison |-> <<n1, operator, n2>>,
                       result |-> result,
                       values |-> [num1 |-> n1, num2 |-> n2]],
           metadata |-> [operator |-> operator,
                         originalInputs |-> [num1 |-> JoinChars(args.num1),
                                             num2 |-> JoinChars(args.num2)]]]

\* --------------------------------------------------- RegexTools.validate
\* new RegExp(pattern, flags) throws a SyntaxError for a pattern the
\* grammar rejects or for invalid flags.  Patterns here are made of
\* literals, "\\" escapes, groups and the quantifier "+", without the u
\* and v flags.
FlagChars == <<"d", "g", "i", "m", "s", "u", "v", "y">>

ValidFlags(flags) ==
  /\ \A i \in 1..Len(flags) : \E j \in 1..Len(FlagChars) : FlagChars[j] = flags[i]
  /\ \A i, j \in 1..Len(flags) : i # j => flags[i] # flags[j]
  /\ ~(\E i, j \in 1..Len(flags) : flags[i] = "u" /\ flags[j] = "v")

\* regex.flags: the flags in the canonical order
CompiledFlags(flags) ==
  SelectSeq(FlagChars, LAMBDA f : \E i \in 1..Len(flags) : flags[i] = f)

\* depth: open groups; atom: whether a quantifier may follow
RECURSIVE PatternError(_, _, _, _)
PatternError(p, i, depth, atom) ==
  IF i > Len(p) THEN (IF depth > 0 THEN "Unterminated group" ELSE "")
  ELSE IF p[i] = "\\"
    THEN (IF i = Len(p) THEN "\\ at end of pattern"
          ELSE PatternError(p, i + 2, depth, TRUE))
  ELSE IF p[i] = "(" THEN PatternError(p, i + 1, depth + 1, FALSE)
  ELSE IF p[i] = ")"
    THEN (IF depth = 0 THEN "Unmatched ')'"
          ELSE PatternError(p, i + 1, depth - 1, TRUE))
  ELSE IF p[i] = "+"
    THEN (IF atom THEN PatternError(p, i + 1, depth, FALSE) ELSE "Nothing to repeat")
  ELSE PatternError(p, i + 1, depth, TRUE)

\* The outcome of new RegExp(pattern, flags); an undefined pattern is the
\* empty pattern.
NewRegExp(pattern, flags) ==
  IF ~ValidFlags(flags)
    THEN [threw |-> TRUE,
          message |-> "Invalid flags supplied to RegExp constructor '"
                      \o JoinChars(flags) \o "'"]
  ELSE IF PatternError(pattern, 1, 0, FALSE) # ""
    THEN [threw |-> TRUE,
          message |-> "Invalid regular expression: /" \o JoinChars(pattern)
                      \o "/: " \o PatternError(pattern, 1, 0, FALSE)]
  ELSE [threw |-> FALSE, message |-> "",
        source |-> IF pattern = <<>> THEN "(?:)" ELSE JoinChars(pattern),
        flags |-> JoinChars(CompiledFlags(flags))]

\* RegexTools.validate(args.pattern, args.flags || "").  The outcome is
\* [threw, value, message]: with the pattern undefined, pattern.length
\* throws in the try block and again in the catch block, so the TypeError
\* leaves the function.
Returned(toolResult) == [threw |-> FALSE, value |-> toolResult, message |-> ""]
Thrown(message) == [threw |-> TRUE, value |-> [success |-> FALSE], message |-> message]

validateRegex(args) ==
  LET flags == IF Has(args, "flags") /\ args.flags # <<>> THEN args.flags ELSE <<>>
      regex == NewRegExp(IF Has(args, "pattern") THEN args.pattern ELSE <<>>, flags)
  IN IF ~Has(args, "pattern")
       THEN Thrown("Cannot read properties of undefined (reading 'length')")
     ELSE IF ~regex.threw
       THEN Returned([success |-> TRUE,
                      result |-> [isValid |-> TRUE,
                                  pattern |-> JoinChars(args.pattern),
                                  flags |-> JoinChars(flags),
                                  source |-> regex.source,
                                  compiledFlags |-> regex.flags],
                      metadata |-> [patternLength |-> Len(args.pattern)]])
     ELSE Returned([success |-> TRUE,
                    result |-> [isValid |-> FALSE,
                                pattern |-> JoinChars(args.pattern),
                                flags |-> JoinChars(flags),
                                error |-> regex.message],
                    metadata |-> [patternLength |-> Len(args.pattern)]])

\* ------------------------------------------------- RegexTools.replace
\* Patterns are sequences of literal characters here, and replacements
\* hold no "$".  The regex matches the text at position i.
MatchesAt(text, pattern, i) ==
  /\ i + Len(pattern) - 1 <= Len(text)
  /\ SubSeq(text, i, i + Len(pattern) - 1) = pattern

\* The start positions of the successive matches from position i on.
RECURSIVE MatchesFrom(_, _, _)
MatchesFrom(text, pattern, i) ==
  IF i > Len(text) THEN <<>>
  ELSE IF MatchesAt(text, pattern, i)
    THEN <<i>> \o MatchesFrom(text, pattern, i + Len(pattern))
  ELSE MatchesFrom(text, pattern, i + 1)

\* The text from position i on with the matches at `starts` replaced.
RECURSIVE Replaced(_, _, _, _, _)
Replaced(text, i, starts, width, replacement) ==
  IF starts = <<>> THEN SubSeq(text, i, Len(text))
  ELSE SubSeq(text, i, Head(starts) - 1) \o replacement
       \o Replaced(text, Head(starts) + width, Tail(starts), width, replacement)

IsGlobal(flags) == \E i \in 1..Len(flags) : flags[i] = "g"

\* text.replace(regex, replacement): every match with the g flag, the
\* first one without.
StringReplace(text, pattern, global, replacement) ==
  LET all == MatchesFrom(text, pattern, 1)
      starts == IF global \/ all = <<>> THEN all ELSE <<Head(all)>>
  IN Replaced(text, 1, starts, Len(pattern), replacement)

\* (text.match(regex) || []).length: the number of matches with the g
\* flag; without, the match array of the first match (the match and its
\* groups, of which a literal pattern has none).
MatchLength(text, pattern, global) ==
  LET all == MatchesFrom(text, pattern, 1)
  IN IF global THEN Len(all) ELSE IF all = <<>> THEN 0 ELSE 1

\* RegexTools.replace(text, pattern, replacement, flags?).  An optional
\* argument is <<>> when undefined and <<value>> otherwise.
replace(text, pattern, replacement, flags) ==
  LET actualFlags == IF flags # <<>> THEN flags[1] ELSE <<"g">>
      regex == NewRegExp(pattern, actualFlags)
      newText == StringReplace(text, pattern, IsGlobal(actualFlags), replacement)
  IN IF regex.threw
       THEN [success |-> FALSE, error |-> "Invalid regex pattern: " \o regex.message]
     ELSE [success |-> TRUE,
           result |-> [originalText |-> text,
                       newText |-> newText,
                       changeCount |-> MatchLength(text, pattern, IsGlobal(actualFlags)),
                       hasChanges |-> text # newText],
           metadata |-> [pattern |-> pattern, replacement |-> replacement,
                         flags |-> actualFlags,
                         originalLength |-> Len(text),
                         newLength |-> Len(newText)]]

\* --------------------------------------------------- RegexTools.match
\* regex.exec(text) of a regex with a literal, non-empty pattern whose
\* lastIndex is `lastIndex`: [found, index, lastIndex], positions counted
\* from 0.  With the g or y flag the search starts at lastIndex, with y
\* the match has to start exactly there, and lastIndex moves behind the
\* match or back to 0; without them the search starts at 0 and lastIndex
\* stays.
Exec(text, pattern, flags, lastIndex) ==
  LET sticky == \E i \in 1..Len(flags) : flags[i] = "y"
      moves == IsGlobal(flags) \/ sticky
      start == IF moves THEN lastIndex ELSE 0
      found == IF start > Len(text) THEN <<>>
               ELSE IF sticky
                 THEN (IF MatchesAt(text, pattern, start + 1) THEN <<start + 1>> ELSE <<>>)
               ELSE MatchesFrom(text, pattern, start + 1)
  IN IF found = <<>>
       THEN [found |-> FALSE, index |-> -1,
             lastIndex |-> IF moves THEN 0 ELSE lastIndex]
     ELSE [found |-> TRUE, index |-> Head(found) - 1,
           lastIndex |-> IF moves THEN Head(found) - 1 + Len(pattern) ELSE lastIndex]

\* RegexTools.match(text, pattern, flags?): regex.test(text), then
\* regex.exec(text) on the same regex.  In the result null is <<>> and a
\* matched string is <<the string>>.
match(text, pattern, flags) ==
  LET actualFlags == IF flags # <<>> THEN flags[1] ELSE <<>>
      regex == NewRegExp(pattern, actualFlags)
      test == Exec(text, pattern, actualFlags, 0)
      execResult == Exec(text, pattern, actualFlags, test.lastIndex)
  IN IF regex.threw
       THEN [success |-> FALSE, error |-> "Invalid regex pattern: " \o regex.message]
     ELSE [success |-> TRUE,
           result |-> [isMatch |-> test.found,
                       firstMatch |-> IF execResult.found THEN <<pattern>> ELSE <<>>,
                       index |-> execResult.index],
           metadata |-> [pattern |-> pattern, flags |-> actualFlags,
                         textLength |-> Len(text)]]

\* ------------------------------------------------ StringTools.compare
Min(a, b) == IF a <= b THEN a ELSE b
Max(a, b) == IF a >= b THEN a ELSE b

\* Mutant of Cell: a substitution is not an edit of its own.
CellWithoutSubstitution(same, diagonal, left, up) ==
  IF same THEN diagonal ELSE Min(left + 1, up + 1)

\* matrix[i][j] from the cells next to it: the diagonal one when the two
\* characters are the same, else one more than the least of the three.
Cell(same, diagonal, left, up) ==
  IF same THEN diagonal ELSE Min(diagonal + 1, Min(left + 1, up + 1))

\* Row i of the matrix, for the character ch of str2, from the row before
\* it; `row` holds the cells done so far.  (Cell j is the element j + 1.)
RECURSIVE FillRow(_, _, _, _)
FillRow(previous, str1, ch, row) ==
  IF Len(row) = Len(str1) + 1 THEN row
  ELSE FillRow(previous, str1, ch,
               Append(row, Cell(ch = str1[Len(row)], previous[Len(row)],
                                row[Len(row)], previous[Len(row) + 1])))

RECURSIVE FillMatrix(_, _, _, _)
FillMatrix(str1, str2, i, previous) ==
  IF i > Len(str2) THEN previous
  ELSE FillMatrix(str1, str2, i + 1, FillRow(previous, str1, str2[i], <<i>>))

\* StringTools.calculateLevenshteinDistance(str1, str2)
calculateLevenshteinDistance(str1, str2) ==
  FillMatrix(str1, str2, 1, [j \in 1..(Len(str1) + 1) |-> j - 1])[Len(str1) + 1]

\* The methods exact, length and levenshtein, and the default branch of
\* the switch.  For levenshtein the strings are sequences of characters.
compareStrings(args) ==
  LET method == IF Has(args, "method") /\ args.method # "" THEN args.method ELSE "exact"
      both == Has(args, "str1") /\ Has(args, "str2")
      distance == calculateLevenshteinDistance(args.str1, args.str2)
      longer == Max(Len(args.str1), Len(args.str2))
      result ==
        IF method = "exact"
          THEN both /\ args.str1 = args.str2
        ELSE IF method = "levenshtein"
          THEN [distance |-> distance,
                maxLength |-> longer,
                similarity |-> IF distance = 0 THEN Fin(1, 1)
                               ELSE JsSub(Fin(1, 1),
                                          JsDiv(Fin(distance, 1), Fin(Max(longer, 1), 1))),
                identical |-> distance = 0]
        ELSE [str1Length |-> Len(args.str1),
              str2Length |-> Len(args.str2),
              difference |-> Len(args.str1) - Len(args.str2),
              equal |-> Len(args.str1) = Len(args.str2)]
  IN IF method \notin {"exact", "length", "levenshtein"}
       THEN [success |-> FALSE, error |-> "Invalid comparison method: " \o method]
     ELSE IF ~Has(args, "str1") \/ ~Has(args, "str2")
       THEN [success |-> FALSE,
             error |-> "String comparison error: "
                       \o "Cannot read properties of undefined (reading 'length')"]
     ELSE [success |-> TRUE,
           result |-> [method |-> method,
                       comparison |-> result,
                       description |->
                         IF method = "length" THEN "Length comparison"
                         ELSE IF method = "levenshtein" THEN "Levenshtein distance"
                         ELSE IF result THEN "Strings are exactly equal"
                         ELSE "Strings are not equal",
                       strings |-> [str1 |-> args.str1, str2 |-> args.str2]],
           metadata |-> [str1Length |-> Len(args.str1),
                         str2Length |-> Len(args.str2),
                         method |-> method]]

\* ---------------------------------------------- StringTools.transform
\* Texts are sequences of characters; the letters are a and A, the white
\* space is the blank.
toUpperCase(s) == [i \in 1..Len(s) |-> IF s[i] = "a" THEN "A" ELSE s[i]]
toLowerCase(s) == [i \in 1..Len(s) |-> IF s[i] = "A" THEN "a" ELSE s[i]]
reverse(s) == [i \in 1..Len(s) |-> s[Len(s) + 1 - i]]

RECURSIVE trimStart(_)
trimStart(s) == IF s # <<>> /\ Head(s) = " " THEN trimStart(Tail(s)) ELSE s
trimEnd(s) == reverse(trimStart(reverse(s)))
trim(s) == trimEnd(trimStart(s))

\* The cases uppercase, lowercase, reverse and trim of the switch, and its
\* default: <<>> for a type the switch does not know, else the new result.
Switched(result, operation) ==
  CASE operation.type = "uppercase" -> <<toUpperCase(result)>>
    [] operation.type = "lowercase" -> <<toLowerCase(result)>>
    [] operation.type = "reverse" -> <<reverse(result)>>
    [] operation.type = "trim" ->
         LET trimType == IF Has(operation, "options") /\ Has(operation.options, "type")
                           THEN operation.options.type ELSE "both"
         IN <<CASE trimType = "start" -> trimStart(result)
                [] trimType = "end" -> trimEnd(result)
                [] OTHER -> trim(result)>>
    [] OTHER -> <<>>

\* The loop over the operations, from operation i on, and the return
\* after it.
RECURSIVE Transformed(_, _, _, _, _)
Transformed(text, operations, i, result, transformations) ==
  IF i > Len(operations)
    THEN [success |-> TRUE,
          result |-> [original |-> text,
                      final |-> result,
                      transformations |-> transformations,
                      totalChanges |->
                        Cardinality({k \in 1..Len(transformations) :
                                       transformations[k].changed})],
          metadata |-> [originalLength |-> Len(text),
                        finalLength |-> Len(result),
                        operationsApplied |-> Len(operations)]]
  ELSE LET after == Switched(result, operations[i])
       IN IF after = <<>>
            THEN [success |-> FALSE,
                  error |-> "Unknown transformation type: " \o operations[i].type]
          ELSE Transformed(text, operations, i + 1, after[1],
                           Append(transformations,
                                  [type |-> operations[i].type,
                                   options |-> IF Has(operations[i], "options")
                                                 THEN <<operations[i].options>>
                                                 ELSE <<>>,
                                   before |-> result,
                                   after |-> after[1],
                                   changed |-> result # after[1]]))

\* Mutant of transform: every operation is applied to the text the call
\* was given.
transformEachTheText(text, operations) ==
  LET alone == [i \in 1..Len(operations) |->
                  Transformed(text, <<operations[i]>>, 1, text, <<>>)]
  IN IF \E i \in 1..Len(operations) : ~alone[i].success
       THEN alone[CHOOSE i \in 1..Len(operations) :
                    /\ ~alone[i].success
                    /\ \A k \in 1..(i - 1) : alone[k].success]
     ELSE [success |-> TRUE,
           result |-> [original |-> text,
                       final |-> IF operations = <<>> THEN text
                                 ELSE alone[Len(operations)].result.final,
                       transformations |->
                         [i \in 1..Len(operations) |-> alone[i].result.transformations[1]],
                       totalChanges |->
                         Cardinality({i \in 1..Len(operations) :
                                        alone[i].result.transformations[1].changed})],
           metadata |-> [originalLength |-> Len(text),
                         finalLength |-> IF operations = <<>> THEN Len(text)
                                         ELSE Len(alone[Len(operations)].result.final),
                         operationsApplied |-> Len(operations)]]

\* StringTools.transform(text, operations)
transform(text, operations) == Transformed(text, operations, 1, text, <<>>)

\* ----------------------------------------------- StringTools.validate
Letters == {"a", "A", "b"}

\* /^\d*\.?\d+$/.test(s)
IsNumeric(s) ==
  \E k \in 0..Len(s) :
    /\ \A i \in 1..k : s[i] \in Digits
    /\ LET rest == IF k < Len(s) /\ s[k + 1] = "." THEN k + 2 ELSE k + 1
       IN /\ rest <= Len(s)
          /\ \A i \in rest..Len(s) : s[i] \in Digits

\* The cases required, length, numeric, alpha and pattern of the switch,
\* which has no default: [threw, valid], threw when new RegExp throws.
RuleHolds(text, rule) ==
  LET options == IF Has(rule, "options") THEN rule.options ELSE EmptyObject
      pattern == IF Has(options, "pattern") THEN options.pattern ELSE <<>>
  IN CASE rule.type = "required" -> [threw |-> FALSE, valid |-> trim(text) # <<>>]
       [] rule.type = "length" ->
            [threw |-> FALSE,
             valid |-> /\ Len(text) >= (IF Has(options, "min") THEN options.min ELSE 0)
                       /\ (Has(options, "max") /\ options.max # 0)
                            => Len(text) <= options.max]
       [] rule.type = "numeric" -> [threw |-> FALSE, valid |-> IsNumeric(trim(text))]
       [] rule.type = "alpha" ->
            [threw |-> FALSE,
             valid |-> text # <<>> /\ \A i \in 1..Len(text) : text[i] \in Letters]
       [] rule.type = "pattern" ->
            IF pattern = <<>> THEN [threw |-> FALSE, valid |-> FALSE]
            ELSE IF NewRegExp(pattern, <<>>).threw THEN [threw |-> TRUE, valid |-> FALSE]
            ELSE [threw |-> FALSE,
                  valid |-> \E i \in 1..Len(text) : MatchesAt(text, pattern, i)]
       [] OTHER -> [threw |-> FALSE, valid |-> FALSE]

\* The entries the loop pushes to `results`.
Results(text, rules) ==
  [i \in 1..Len(rules) |->
     [type |-> rules[i].type,
      valid |-> RuleHolds(text, rules[i]).valid,
      options |-> IF Has(rules[i], "options") THEN <<rules[i].options>> ELSE <<>>]]

\* Mutant of validateString: the loop ends at the first rule that fails.
validateStringUntilFailure(text, rules) ==
  LET all == Results(text, rules)
      last == IF \A i \in 1..Len(all) : all[i].valid THEN Len(all)
              ELSE CHOOSE i \in 1..Len(all) :
                     ~all[i].valid /\ \A k \in 1..(i - 1) : all[k].valid
      results == SubSeq(all, 1, last)
  IN IF \E i \in 1..Len(rules) : RuleHolds(text, rules[i]).threw
       THEN [success |-> FALSE,
             error |-> "String validation error: Invalid regular expression"]
     ELSE [success |-> TRUE,
           result |-> [allValid |-> \A i \in 1..Len(results) : results[i].valid,
                       validationResults |-> results,
                       passedRules |->
                         Cardinality({i \in 1..Len(results) : results[i].valid}),
                       failedRules |->
                         Cardinality({i \in 1..Len(results) : ~results[i].valid}),
                       totalRules |-> Len(results)],
           metadata |-> [textLength |-> Len(text), rulesApplied |-> Len(rules)]]

\* StringTools.validate(text, rules)
validateString(text, rules) ==
  LET results == Results(text, rules)
  IN IF \E i \in 1..Len(rules) : RuleHolds(text, rules[i]).threw
       THEN [success |-> FALSE,
             error |-> "String validation error: Invalid regular expression"]
     ELSE [success |-> TRUE,
           result |-> [allValid |-> \A i \in 1..Len(results) : results[i].valid,
                       validationResults |-> results,
                       passedRules |->
                         Cardinality({i \in 1..Len(results) : results[i].valid}),
                       failedRules |->
                         Cardinality({i \in 1..Len(results) : ~results[i].valid}),
                       totalRules |-> Len(results)],
           metadata |-> [textLength |-> Len(text), rulesApplied |-> Len(rules)]]

\* ---------------------------------------------------- RegexTools.split
\* The pieces of the text from position i on, between the matches that
\* start at `starts`, and the rest of the text after the last of them.
RECURSIVE Pieces(_, _, _, _)
Pieces(text, i, starts, width) ==
  IF starts = <<>> THEN <<SubSeq(text, i, Len(text))>>
  ELSE <<SubSeq(text, i, Head(starts) - 1)>>
       \o Pieces(text, Head(starts) + width, Tail(starts), width)

\* RegexTools.split(text, pattern, flags, limit) of the TypeScript source;
\* the limit is <<>> when undefined.  With a limit the loop over the
\* matches of matchAll breaks once limit - 1 pieces are pushed, and the
\* rest of the text is pushed after it.
split(text, pattern, flags, limit) ==
  LET regex == NewRegExp(pattern, flags)
      matches == MatchesFrom(text, pattern, 1)
      parts == IF limit = <<>> THEN Pieces(text, 1, matches, Len(pattern))
               ELSE Pieces(text, 1,
                           SubSeq(matches, 1, Min(Len(matches), Max(limit[1] - 1, 0))),
                           Len(pattern))
  IN IF regex.threw
       THEN [success |-> FALSE, error |-> "Invalid regex pattern: " \o regex.message]
     ELSE [success |-> TRUE,
           result |-> [parts |-> parts, count |-> Len(parts)],
           metadata |-> [pattern |-> pattern, flags |-> flags,
                         limit |-> IF limit = <<0>> THEN <<>> ELSE limit,
                         originalLength |-> Len(text)]]

\* RegexTools.split of the compiled file: text.split(regex, limit), the
\* first `limit` of the pieces of the whole split.
splitCompiled(text, pattern, flags, limit) ==
  LET regex == NewRegExp(pattern, flags)
      all == Pieces(text, 1, MatchesFrom(text, pattern, 1), Len(pattern))
      parts == IF limit = <<>> THEN all ELSE SubSeq(all, 1, Min(Len(all), limit[1]))
  IN IF regex.threw
       THEN [success |-> FALSE, error |-> "Invalid regex pattern: " \o regex.message]
     ELSE [success |-> TRUE,
           result |-> [parts |-> parts, count |-> Len(parts)],
           metadata |-> [pattern |-> pattern, flags |-> flags,
                         limit |-> IF limit = <<0>> THEN <<>> ELSE limit,
                         originalLength |-> Len(text)]]

\* ---------------------------------------------- MathTools.sanitizeNumber
\* The number of the characters c in s.
CountOf(s, c) == Cardinality({i \in 1..Len(s) : s[i] = c})

\* Up to "Handle multiple decimal points": the trimmed input without the
\* characters outside [\d\-\.\,] (the "-" is in the class only with
\* allowNegative), without the thousands separators, and with no "." but
\* the first one.  The separators are the default ones.
Cleaned(input, allowNegative) ==
  LET allowedChars == Digits \cup {".", ","}
                      \cup (IF allowNegative THEN {"-"} ELSE {})
      kept == SelectSeq(trim(input), LAMBDA c : c \in allowedChars /\ c # ",")
  IN IF CountOf(kept, ".") <= 1 THEN kept
     ELSE LET first == CHOOSE i \in 1..Len(kept) :
                         kept[i] = "." /\ \A k \in 1..(i - 1) : kept[k] # "."
          IN SubSeq(kept, 1, first)
             \o SelectSeq(SubSeq(kept, first + 1, Len(kept)), LAMBDA c : c # ".")

\* Mutant of Signed: any "-" makes the number negative.
SignedByAnyMinus(sanitized) ==
  IF CountOf(sanitized, "-") = 0 THEN sanitized
  ELSE <<"-">> \o SelectSeq(sanitized, LAMBDA c : c # "-")

\* "Handle multiple negative signs" and "Ensure negative sign is at the
\* beginning".
Signed(sanitized) ==
  LET negativeCount == CountOf(sanitized, "-")
      single == IF negativeCount > 1
                  THEN (IF negativeCount % 2 = 1 THEN <<"-">> ELSE <<>>)
                       \o SelectSeq(sanitized, LAMBDA c : c # "-")
                ELSE sanitized
  IN IF CountOf(single, "-") > 0 /\ Head(single) # "-"
       THEN <<"-">> \o SelectSeq(single, LAMBDA c : c # "-")
     ELSE single

\* Number.isFinite(parseFloat(s)): after an optional sign, a digit, or a
\* "." and a digit.
ParsesToNumber(s) ==
  LET body == IF s # <<>> /\ Head(s) \in {"-", "+"} THEN Tail(s) ELSE s
  IN \/ body # <<>> /\ Head(body) \in Digits
     \/ Len(body) >= 2 /\ body[1] = "." /\ body[2] \in Digits

\* MathTools.sanitizeNumber(input, options), the options <<>> when
\* undefined.  Of the options allowNegative is modelled; the value of
\* `parsed` is left out of the result.
sanitizeNumber(input, options) ==
  LET allowNegative == IF options # <<>> /\ Has(options[1], "allowNegative")
                         THEN options[1].allowNegative ELSE TRUE
      sanitized == Signed(Cleaned(input, allowNegative))
  IN [success |-> TRUE,
      result |-> [original |-> input,
                  sanitized |-> sanitized,
                  isValid |-> ParsesToNumber(sanitized),
                  changes |-> IF trim(input) # sanitized THEN "sanitized"
                              ELSE "no changes needed"],
      metadata |-> [options |-> [allowDecimals |-> TRUE,
                                 allowNegative |-> allowNegative,
                                 thousandsSeparator |-> ",",
                                 decimalSeparator |-> "."],
                    removedCharacters |->
                      SelectSeq(trim(input),
                                LAMBDA c : c \notin Digits \cup {".", ","}
                                             \cup (IF allowNegative THEN {"-"} ELSE {}))]]

\* ------------------------------------------------- MathTools.statistics
\* An element of `numbers` is [number |-> a number] or [string |-> the
\* characters].  typeof n === 'string' ? parseFloat(n) : n
Parsed(n) == IF Has(n, "string") THEN parseFloat(n.string) ELSE n.number

\* Mutant of Sorted: the elements stay in the order of the input.
SortedAsGiven(nums) == nums

\* [...nums].sort((a, b) => a - b): the place of nums[i] is after the
\* smaller elements and the equal ones before it.
Sorted(nums) ==
  LET Place(i) == Cardinality({k \in 1..Len(nums) :
                                 \/ JsLess(nums[k], nums[i])
                                 \/ nums[k] = nums[i] /\ k < i}) + 1
  IN [p \in 1..Len(nums) |-> nums[CHOOSE i \in 1..Len(nums) : Place(i) = p]]

RECURSIVE Sum(_)
Sum(nums) == IF nums = <<>> THEN Fin(0, 1) ELSE JsAdd(Head(nums), Sum(Tail(nums)))

\* MathTools.statistics(numbers), `numbers` <<>> when undefined and
\* <<the array>> else.  Mode, variance and standardDeviation are left out
\* of the result.
statistics(numbers) ==
  LET all == [i \in 1..Len(numbers[1]) |-> Parsed(numbers[1][i])]
      nums == SelectSeq(all, NumberIsFinite)
      sorted == Sorted(nums)
      sum == Sum(nums)
      half == Len(nums) \div 2
  IN IF numbers = <<>>
       THEN [success |-> FALSE,
             error |-> "Statistics calculation error: "
                       \o "Cannot read properties of undefined (reading 'map')"]
     ELSE IF Len(nums) = 0
       THEN [success |-> FALSE, error |-> "No valid numbers provided"]
     ELSE [success |-> TRUE,
           result |-> [count |-> Len(nums),
                       sum |-> sum,
                       mean |-> JsDiv(sum, Fin(Len(nums), 1)),
                       median |-> IF Len(nums) % 2 = 0
                                    THEN JsDiv(JsAdd(sorted[half], sorted[half + 1]),
                                               Fin(2, 1))
                                  ELSE sorted[half + 1],
                       min |-> sorted[1],
                       max |-> sorted[Len(sorted)],
                       range |-> JsSub(sorted[Len(sorted)], sorted[1]),
                       sorted |-> sorted],
           metadata |-> [originalCount |-> Len(numbers[1]),
                         invalidNumbers |-> Len(numbers[1]) - Len(nums)]]

\* ---------------------------------------------------------- DateTools
\* Time is a line of abstract instants.  new Date(text) parses the texts of
\* DateTexts to their instant and any other text to an invalid date;
\* toISOString prints an instant in the canonical form.
DateTexts ==
  <<[text |-> "2023-06-15T10:00:00Z", t |-> 1],
    [text |-> "2023-06-15T10:00:00.000Z", t |-> 1],
    [text |-> "2030-01-01T00:00:00Z", t |-> 3],
    [text |-> "2030-01-01T00:00:00.000Z", t |-> 3]>>

InvalidDate == [valid |-> FALSE, t |-> 0]

NewDate(text) ==
  IF \E i \in 1..Len(DateTexts) : DateTexts[i].text = text
    THEN [valid |-> TRUE,
          t |-> DateTexts[CHOOSE i \in 1..Len(DateTexts) : DateTexts[i].text = text].t]
    ELSE InvalidDate

toISOString(date) ==
  IF date.t = 1 THEN "2023-06-15T10:00:00.000Z"
  ELSE IF date.t = 3 THEN "2030-01-01T00:00:00.000Z"
  ELSE "1970-01-01T00:00:00.000Z"

\* DateTools.parse(dateString, {format: undefined, strict}): the members
\* of the result that validate reads.  `d` is the object holding the
\* dateString key, if any.
parse(d) ==
  IF ~Has(d, "dateString") \/ d.dateString = ""
    THEN [success |-> FALSE, error |-> "Date string cannot be null, undefined, or empty"]
  ELSE IF ~NewDate(d.dateString).valid
    THEN [success |-> FALSE,
          error |-> "Unable to parse date: \"" \o d.dateString \o "\""]
  ELSE [success |-> TRUE,
        result |-> [original |-> d.dateString,
                    parsed |-> toISOString(NewDate(d.dateString)),
                    timestamp |-> NewDate(d.dateString).t],
        metadata |-> [timezone |-> "UTC", locale |-> "en-US",
                      inputFormat |-> "auto-detected"]]

\* The result of DateTools.compare for two valid dates whose instants
\* differ by `diff` (date2 minus date1).  Of the differences the
\* milliseconds are kept, which is also the primary difference at the
\* default precision; the human-readable text is left out.
Compared(dateObj1, dateObj2, diff, absolute) ==
  [success |-> TRUE,
   result |-> [date1 |-> toISOString(dateObj1),
               date2 |-> toISOString(dateObj2),
               comparison |->
                 [earlier |-> toISOString(IF diff > 0 THEN dateObj1 ELSE dateObj2),
                  later |-> toISOString(IF diff > 0 THEN dateObj2 ELSE dateObj1),
                  equal |-> diff = 0,
                  date1IsEarlier |-> diff > 0,
                  date2IsEarlier |-> diff < 0],
               differences |->
                 [milliseconds |-> IF absolute THEN Abs(diff) ELSE diff],
               primaryDifference |-> IF absolute THEN Abs(diff) ELSE diff,
               rawDifference |-> diff],
   metadata |-> [precision |-> "milliseconds", absolute |-> absolute,
                 unit |-> "milliseconds"]]

\* Mutant of compareDates: the result says date1 is earlier also when
\* the dates are equal.
compareDatesNotLater(args) ==
  LET dateObj1 == IF Has(args, "date1") THEN NewDate(args.date1) ELSE InvalidDate
      dateObj2 == IF Has(args, "date2") THEN NewDate(args.date2) ELSE InvalidDate
      diff == dateObj2.t - dateObj1.t
      absolute == Has(args, "options") /\ Has(args.options, "absolute")
                  /\ args.options.absolute
  IN IF ~dateObj1.valid \/ ~dateObj2.valid
       THEN [success |-> FALSE, error |-> "One or both dates are invalid"]
     ELSE [Compared(dateObj1, dateObj2, diff, absolute)
             EXCEPT !.result.comparison.date1IsEarlier = diff >= 0]

\* DateTools.compare(args.date1, args.date2, args.options), for dates
\* given as text and the default precision.
compareDates(args) ==
  LET dateObj1 == IF Has(args, "date1") THEN NewDate(args.date1) ELSE InvalidDate
      dateObj2 == IF Has(args, "date2") THEN NewDate(args.date2) ELSE InvalidDate
      diff == dateObj2.t - dateObj1.t
      absolute == Has(args, "options") /\ Has(args.options, "absolute")
                  /\ args.options.absolute
  IN IF ~dateObj1.valid \/ ~dateObj2.valid
       THEN [success |-> FALSE, error |-> "One or both dates are invalid"]
     ELSE Compared(dateObj1, dateObj2, diff, absolute)

\* Mutant of validateDate: a date that does not parse is reported as a
\* failure that still carries the result.
validateDateFailureWithResult(args, now) ==
  IF ~parse(args).success
    THEN [success |-> FALSE,
          result |-> [isValid |-> FALSE, errors |-> <<parse(args).error>>]]
  ELSE [success |-> TRUE,
        result |-> [isValid |-> TRUE, dateString |-> args.dateString]]

\* DateTools.validate(args.dateString, args.format, args.options) at the
\* instant `now`, without a format.
validateDate(args, now) ==
  LET options == IF Has(args, "options") THEN args.options ELSE EmptyObject
      allowFuture == IF Has(options, "allowFuture") THEN options.allowFuture ELSE TRUE
      allowPast == IF Has(options, "allowPast") THEN options.allowPast ELSE TRUE
      parseResult == parse(args)
      parsedDate == NewDate(parseResult.result.parsed)
      futureOk == ~(~allowFuture /\ parsedDate.t > now)
      pastOk == ~(~allowPast /\ parsedDate.t < now)
      hasMin == Has(options, "minDate") /\ options.minDate # ""
      hasMax == Has(options, "maxDate") /\ options.maxDate # ""
      minDate == NewDate(options.minDate)
      maxDate == NewDate(options.maxDate)
      minOk == ~(parsedDate.t < minDate.t)
      maxOk == ~(parsedDate.t > maxDate.t)
      errors ==
        (IF futureOk THEN <<>> ELSE <<"Future dates not allowed">>)
        \o (IF pastOk THEN <<>> ELSE <<"Past dates not allowed">>)
        \o (IF hasMin /\ ~minOk
              THEN <<"Date must be on or after " \o toISOString(minDate)>> ELSE <<>>)
        \o (IF hasMax /\ ~maxOk
              THEN <<"Date must be on or before " \o toISOString(maxDate)>> ELSE <<>>)
      validations ==
        <<[rule |-> "allowFuture", passed |-> futureOk],
          [rule |-> "allowPast", passed |-> pastOk]>>
        \o (IF hasMin THEN <<[rule |-> "minDate", passed |-> minOk,
                               value |-> toISOString(minDate)]>> ELSE <<>>)
        \o (IF hasMax THEN <<[rule |-> "maxDate", passed |-> maxOk,
                               value |-> toISOString(maxDate)]>> ELSE <<>>)
      passedCount == Cardinality({i \in 1..Len(validations) : validations[i].passed})
      failedCount == Cardinality({i \in 1..Len(validations) : ~validations[i].passed})
  IN IF ~parseResult.success
       THEN [success |-> TRUE,
             result |-> [isValid |-> FALSE,
                         format |-> "auto-detect",
                         errors |-> <<parseResult.error>>,
                         validationsPassed |-> 0,
                         validationsFailed |-> 1],
             metadata |-> [strict |-> FALSE, allowFuture |-> allowFuture,
                           allowPast |-> allowPast]]
     ELSE IF (hasMin /\ ~minDate.valid) \/ (hasMax /\ ~maxDate.valid)
       THEN [success |-> FALSE,
             error |-> "Date validation error: " \o "Invalid time value"]
     ELSE [success |-> TRUE,
           result |-> [isValid |-> errors = <<>>,
                       dateString |-> args.dateString,
                       parsedDate |-> toISOString(parsedDate),
                       format |-> "auto-detect",
                       errors |-> errors,
                       validations |-> validations,
                       validationsPassed |-> passedCount,
                       validationsFailed |-> failedCount,
                       summary |-> IF errors = <<>> THEN "All validations passed"
                                   ELSE "validation(s) failed"],
           metadata |-> [strict |-> FALSE, allowFuture |-> allowFuture,
                         allowPast |-> allowPast]]

\* ------------------------------------------------- the request handlers
\* The four servers, and two further server programs of the repository:
\* the string server with the JSON middleware on every path
\* ("string_legacy") and the date server that attaches stdio only
\* ("date_stdio").
Servers == {"math", "regex", "string", "date", "string_legacy", "date_stdio"}

\* Mutant of ListToolsHandler: a descriptor is listed under the name of
\* its neighbour.
ListToolsHandlerRepeatedName(server) ==
  CASE server = "math" ->
         <<[name |-> "math_calculate"], [name |-> "math_compare"],
           [name |-> "math_parse_numbers"], [name |-> "math_format_number"],
           [name |-> "math_format_number"], [name |-> "math_statistics"]>>
    [] server = "regex" ->
         <<[name |-> "regex_match_count"], [name |-> "regex_match"],
           [name |-> "regex_match"], [name |-> "regex_replace"]>>
    [] server = "string" ->
         <<[name |-> "string_compare"], [name |-> "string_compare"],
           [name |-> "string_analyze"], [name |-> "string_diff"],
           [name |-> "string_validate"]>>
    [] server = "date" ->
         <<[name |-> "date_parse"], [name |-> "date_format"],
           [name |-> "date_format"], [name |-> "date_arithmetic"],
           [name |-> "date_compare"], [name |-> "date_info"],
           [name |-> "date_validate"]>>
    [] server = "string_legacy" ->
         <<[name |-> "compare"], [name |-> "compare"], [name |-> "analyze"],
           [name |-> "diff"], [name |-> "validate"]>>
    [] server = "date_stdio" ->
         <<[name |-> "parse"], [name |-> "format"], [name |-> "format"],
           [name |-> "arithmetic"], [name |-> "compare"], [name |-> "info"],
           [name |-> "validate"]>>

\* The descriptors the list-tools handler of each server returns, by name.
ListToolsHandler(server) ==
  CASE server = "math" ->
         <<[name |-> "math_calculate"], [name |-> "math_compare"],
           [name |-> "math_parse_numbers"], [name |-> "math_format_number"],
           [name |-> "math_sanitize_number"], [name |-> "math_statistics"]>>
    [] server = "regex" ->
         <<[name |-> "regex_match_count"], [name |-> "regex_match"],
           [name |-> "regex_extract"], [name |-> "regex_replace"],
           [name |-> "regex_split"], [name |-> "regex_extract_json"],
           [name |-> "regex_find_groups"], [name |-> "regex_validate"],
           [name |-> "regex_tokenize"], [name |-> "regex_normalize_whitespace"],
           [name |-> "regex_redact"]>>
    [] server = "string" ->
         <<[name |-> "string_compare"], [name |-> "string_transform"],
           [name |-> "string_analyze"], [name |-> "string_diff"],
           [name |-> "string_validate"]>>
    [] server = "date" ->
         <<[name |-> "date_parse"], [name |-> "date_format"],
           [name |-> "date_convert"], [name |-> "date_arithmetic"],
           [name |-> "date_compare"], [name |-> "date_info"],
           [name |-> "date_validate"]>>
    [] server = "string_legacy" ->
         <<[name |-> "compare"], [name |-> "transform"], [name |-> "analyze"],
           [name |-> "diff"], [name |-> "validate"]>>
    [] server = "date_stdio" ->
         <<[name |-> "parse"], [name |-> "format"], [name |-> "convert"],
           [name |-> "arithmetic"], [name |-> "compare"], [name |-> "info"],
           [name |-> "validate"]>>

\* The case labels of the switch in each server's call-tool handler.
CaseLabels(server) ==
  CASE server = "math" ->
         {"math_calculate", "math_compare", "math_parse_numbers",
          "math_format_number", "math_sanitize_number", "math_statistics"}
    [] server = "regex" ->
         {"regex_match_count", "regex_match", "regex_extract", "regex_replace",
          "regex_split", "regex_extract_json", "regex_find_groups",
          "regex_validate", "regex_tokenize", "regex_normalize_whitespace",
          "regex_redact"}
    [] server = "string" ->
         {"string_compare", "string_transform", "string_analyze", "string_diff",
          "string_validate"}
    [] server = "date" ->
         {"date_parse", "date_format", "date_convert", "date_arithmetic",
          "date_compare", "date_info", "date_validate"}
    [] server = "string_legacy" ->
         {"compare", "transform", "analyze", "diff", "validate"}
    [] server = "date_stdio" ->
         {"parse", "format", "convert", "arithmetic", "compare", "info",
          "validate"}

\* The tools whose functions are modelled above and that the requests of
\* the clients name, besides a name outside the case labels.  (The case of
\* regex_replace is called with arguments of its own, see ToolSpec.)
ModelledTools ==
  {"math_calculate", "math_compare", "regex_validate", "string_compare",
   "date_validate"}

\* Mutant of callTool: the default case throws without the name.
callToolNamelessDefault(server, name, args, now) ==
  IF name \notin CaseLabels(server) THEN Thrown("Unknown tool")
  ELSE CASE name = "math_calculate" -> Returned(calculate(args))
         [] name = "math_compare" -> Returned(compare(args))
         [] name = "regex_validate" -> validateRegex(args)
         [] name = "string_compare" -> Returned(compareStrings(args))
         [] name = "date_validate" -> Returned(validateDate(args, now))
         [] name = "regex_replace" ->
              Returned(replace(args.text, args.pattern, args.replacement,
                               <<IF Has(args, "flags") /\ args.flags # <<>>
                                   THEN args.flags ELSE <<"g">>>>))

\* Mutant of callTool: string_compare stamps its result with the time of
\* the call.
callToolStampingResult(server, name, args, now) ==
  IF name \notin CaseLabels(server) THEN Thrown("Unknown tool: " \o name)
  ELSE CASE name = "math_calculate" -> Returned(calculate(args))
         [] name = "math_compare" -> Returned(compare(args))
         [] name = "regex_validate" -> validateRegex(args)
         [] name = "string_compare" ->
              Returned([success |-> TRUE, result |-> [comparedAt |-> now]])
         [] name = "date_validate" -> Returned(validateDate(args, now))
         [] name = "regex_replace" ->
              Returned(replace(args.text, args.pattern, args.replacement,
                               <<IF Has(args, "flags") /\ args.flags # <<>>
                                   THEN args.flags ELSE <<"g">>>>))

\* switch (name) { case ...: return tool(args); default: throw }: what the
\* try block does, as [threw, value, message].
callTool(server, name, args, now) ==
  IF name \notin CaseLabels(server) THEN Thrown("Unknown tool: " \o name)
  ELSE CASE name = "math_calculate" ->
              Returned(IF build = "compiled" THEN calculateCompiled(args)
                       ELSE calculate(args))
         [] name = "math_compare" -> Returned(compare(args))
         [] name = "regex_validate" -> validateRegex(args)
         [] name = "regex_match" ->
              Returned(match(args.text, args.pattern,
                             <<IF Has(args, "flags") THEN args.flags ELSE <<>>>>))
         [] name = "math_sanitize_number" ->
              Returned(sanitizeNumber(args.input,
                                      IF Has(args, "options") THEN <<args.options>>
                                      ELSE <<>>))
         [] name = "math_statistics" ->
              Returned(statistics(IF Has(args, "numbers") THEN <<args.numbers>>
                                  ELSE <<>>))
         [] name = "regex_split" ->
              LET flags == IF Has(args, "flags") THEN args.flags ELSE <<>>
                  limit == IF Has(args, "limit") THEN <<args.limit>> ELSE <<>>
              IN Returned(IF build = "compiled"
                            THEN splitCompiled(args.text, args.pattern, flags, limit)
                          ELSE split(args.text, args.pattern, flags, limit))
         [] name = "string_compare" -> Returned(compareStrings(args))
         [] name = "string_transform" ->
              Returned(transform(args.text,
                                 IF Has(args, "operations") THEN args.operations
                                 ELSE <<>>))
         [] name = "string_validate" ->
              Returned(validateString(args.text,
                                      IF Has(args, "rules") THEN args.rules ELSE <<>>))
         [] name = "date_validate" -> Returned(validateDate(args, now))
         [] name = "date_compare" -> Returned(compareDates(args))
         [] name = "regex_replace" ->
              Returned(replace(args.text, args.pattern, args.replacement,
                               <<IF Has(args, "flags") /\ args.flags # <<>>
                                   THEN args.flags ELSE <<"g">>>>))

\* Mutant of CallToolHandler: the name is resolved before the arguments
\* are looked at.
CallToolHandlerResolveFirst(server, params, now) ==
  IF params.name \notin CaseLabels(server)
    THEN [response |->
            [content |-> TextContent([success |-> FALSE,
                                      error |-> "Unknown tool: " \o params.name]),
             isError |-> TRUE],
          invoked |-> "none", escaped |-> FALSE]
  ELSE IF ~Has(params, "arguments")
    THEN [response |->
            [content |-> TextContent([success |-> FALSE, error |-> "No arguments provided"]),
             isError |-> TRUE],
          invoked |-> "none", escaped |-> FALSE]
  ELSE [response |->
          [content |-> TextContent(callTool(server, params.name, params.arguments, now).value)],
        invoked |-> params.name, escaped |-> FALSE]

\* Mutant of CallToolHandler: isError follows the ToolResult's success.
CallToolHandlerErrorOnFailure(server, params, now) ==
  IF ~Has(params, "arguments")
    THEN [response |->
            [content |-> TextContent([success |-> FALSE, error |-> "No arguments provided"]),
             isError |-> TRUE],
          invoked |-> "none", escaped |-> FALSE]
  ELSE With(callTool(server, params.name, params.arguments, now), LAMBDA tried :
          IF tried.threw
            THEN [response |->
                    [content |-> TextContent(
                       [success |-> FALSE,
                        error |-> "Tool execution failed: " \o tried.message]),
                     isError |-> TRUE],
                  invoked |-> IF params.name \in CaseLabels(server)
                              THEN params.name ELSE "none",
                  escaped |-> FALSE]
          ELSE IF ~tried.value.success
            THEN [response |-> [content |-> TextContent(tried.value), isError |-> TRUE],
                  invoked |-> params.name, escaped |-> FALSE]
          ELSE [response |-> [content |-> TextContent(tried.value)],
                invoked |-> params.name, escaped |-> FALSE])

\* Mutant of CallToolHandler: no try/catch around the switch.
CallToolHandlerNoCatch(server, params, now) ==
  IF ~Has(params, "arguments")
    THEN [response |->
            [content |-> TextContent([success |-> FALSE, error |-> "No arguments provided"]),
             isError |-> TRUE],
          invoked |-> "none", escaped |-> FALSE]
  ELSE With(callTool(server, params.name, params.arguments, now), LAMBDA tried :
          IF tried.threw
            THEN [response |-> EmptyObject,
                  invoked |-> IF params.name \in CaseLabels(server)
                              THEN params.name ELSE "none",
                  escaped |-> TRUE]
          ELSE [response |-> [content |-> TextContent(tried.value)],
                invoked |-> params.name, escaped |-> FALSE])

\* The call-tool handler: [response, invoked, escaped].  `invoked` is the
\* tool function that was called ("none" if none was) and `escaped` tells
\* whether an exception left the handler.
CallToolHandler(server, params, now) ==
  IF ~Has(params, "arguments")
    THEN [response |->
            [content |-> TextContent([success |-> FALSE, error |-> "No arguments provided"]),
             isError |-> TRUE],
          invoked |-> "none", escaped |-> FALSE]
  ELSE With(callTool(server, params.name, params.arguments, now), LAMBDA tried :
          IF tried.threw
            THEN [response |->
                    [content |-> TextContent(
                       [success |-> FALSE,
                        error |-> "Tool execution failed: " \o tried.message]),
                     isError |-> TRUE],
                  invoked |-> IF params.name \in CaseLabels(server)
                              THEN params.name ELSE "none",
                  escaped |-> FALSE]
          ELSE [response |-> [content |-> TextContent(tried.value)],
                invoked |-> params.name, escaped |-> FALSE])

\* ------------------------------------------------------------- requests
\* The argument objects a client sends with each tool name.
CallArguments(name) ==
  CASE name = "math_calculate" ->
         {[expression |-> <<"5", " ", "/", " ", "0">>],
          [expression |-> <<"2", "+", "+", "3">>],
          [expression |-> <<"2", "+", "3">>]}
    [] name = "math_compare" ->
         {[num1 |-> <<"5">>, num2 |-> <<"3">>, operator |-> ">"]}
    [] name = "regex_validate" ->
         {EmptyObject,
          [pattern |-> <<"\\", "d", "+">>],
          [pattern |-> <<"(">>]}
    [] name = "string_compare" ->
         {EmptyObject,
          [str1 |-> "hello", str2 |-> "hello", method |-> "exact"],
          [str1 |-> "hello", str2 |-> "hello", method |-> "bogus"]}
    [] name = "date_validate" ->
         {[dateString |-> "garbage"],
          [dateString |-> "2030-01-01T00:00:00Z", options |-> [allowFuture |-> FALSE]],
          [dateString |-> "2023-06-15T10:00:00Z", options |-> [minDate |-> "garbage"]]}
    [] OTHER -> {EmptyObject}

ToolNames(server) == (CaseLabels(server) \cap ModelledTools) \cup {"does_not_exist"}

\* params of a call-tool request: {name, arguments?}
CallParams(server) ==
  {[name |-> name] : name \in ToolNames(server)}
  \cup UNION {{[name |-> name, arguments |-> a] : a \in CallArguments(name)} :
               name \in ToolNames(server)}

\* A JSON-RPC request.  `n` is not part of the message: it numbers the
\* requests in the order the clients issue them.
Requests(server, n) ==
  {[n |-> n, id |-> id, method |-> "tools/list"] : id \in 1..MaxId}
  \cup {[n |-> n, id |-> id, method |-> "tools/call", params |-> ps] :
          id \in 1..MaxId, ps \in IF n <= MaxCalls THEN CallParams(server) ELSE {}}

\* -------------------------------------------------------------- process
VARIABLES
  server,       \* which of the four servers this process is
  TRANSPORT,    \* MCP_TRANSPORT: "stdio", "http" or "both"
  phase,        \* "init", "running", "closing" (SIGINT handler), "exited"
  exitCode,     \* the status the process exited with, -1 while it runs
  transport,    \* the session's current transport: "none", "stdio", "http"
  stdioOn,      \* the stdio transport listens to stdin
  httpOn,       \* "off", "pending" (listen called), "listening"
  closed,       \* the session has been closed
  sessionId,    \* the HTTP session id issued, 0 if none
  stdin,        \* requests written to stdin and not read yet
  tasks,        \* request handlers scheduled and not run yet (microtasks)
  pending,      \* HTTP transport: request id -> exchange that awaits its response
  stdout,       \* the messages written to stdout
  exchanges,    \* the HTTP exchanges on the protocol path
  log,          \* every request the session handled, with what was done
  errors,       \* how often the session's onerror hook ran
  clock,        \* the current instant
  issued,       \* number of requests the clients have issued
  ALLOWED_ORIGINS,  \* ALLOWED_ORIGINS: the list of allowed origins
  served,       \* every HTTP request the listener took, with what was done
  call,         \* params of a call-tool request whose handling is looked at alone
  answer,       \* <<the handler's response to `call`>>, <<>> before
  direct        \* <<the tool function's result on the arguments of `call`>>

vars == <<server, TRANSPORT, phase, exitCode, transport, stdioOn, httpOn, closed,
          sessionId, stdin, tasks, pending, stdout, exchanges, log, errors,
          clock, issued, ALLOWED_ORIGINS, served, call, answer, direct, build>>

Init ==
  /\ server \in Servers
  /\ TRANSPORT \in {"stdio", "http", "both"}
  /\ phase = "init"
  /\ exitCode = -1
  /\ transport = "none"
  /\ stdioOn = FALSE
  /\ httpOn = "off"
  /\ closed = FALSE
  /\ sessionId = 0
  /\ stdin = <<>>
  /\ tasks = <<>>
  /\ pending = EmptyObject
  /\ stdout = <<>>
  /\ exchanges = <<>>
  /\ log = <<>>
  /\ errors = 0
  /\ clock = 2
  /\ issued = 0
  /\ ALLOWED_ORIGINS = {"*"}
  /\ served = <<>>
  /\ call = EmptyObject
  /\ answer = <<>>
  /\ direct = <<>>
  /\ build = "source"

\* run(): the transports the server attaches under the mode selector, in
\* the order it attaches them.  The stdio-only date server does not look
\* at the selector.
Attaches(program, selector) ==
  IF program = "date_stdio" \/ selector = "stdio" THEN {"stdio"}
  ELSE IF selector = "http" THEN {"http"}
  ELSE {"stdio", "http"}

\* server.connect(transport): the session keeps one transport reference,
\* which a second connect overwrites; the transport delivers what it
\* receives to the session from then on.
\* run(): runOnStdio and/or runOnHttp by TRANSPORT.  Nothing is read from
\* stdin or the network between the steps of run().
Run ==
  /\ phase = "init"
  /\ phase' = "running"
  /\ stdioOn' = ("stdio" \in Attaches(server, TRANSPORT))
  /\ httpOn' = IF "http" \in Attaches(server, TRANSPORT) THEN "pending" ELSE "off"
  /\ transport' = IF "http" \in Attaches(server, TRANSPORT) THEN "http" ELSE "stdio"
  /\ UNCHANGED <<build, call, answer, direct, ALLOWED_ORIGINS, served, server, TRANSPORT, exitCode, closed, sessionId, stdin, tasks,
                 pending, stdout, exchanges, log, errors, clock, issued>>

\* app.listen(HTTP_PORT, callback): the port is bound ...
Listening ==
  /\ phase = "running" /\ httpOn = "pending" /\ tasks = <<>>
  /\ httpOn' = "listening"
  /\ UNCHANGED <<build, call, answer, direct, ALLOWED_ORIGINS, served, server, TRANSPORT, phase, exitCode, transport, stdioOn, closed,
                 sessionId, stdin, tasks, pending, stdout, exchanges, log, errors,
                 clock, issued>>

\* ... or it is not: the listener emits an error event that nothing
\* handles, and the process dies of the uncaught exception.
ListenError ==
  /\ phase = "running" /\ httpOn = "pending" /\ tasks = <<>>
  /\ phase' = "exited"
  /\ exitCode' = 1
  /\ httpOn' = "off"
  /\ UNCHANGED <<build, call, answer, direct, ALLOWED_ORIGINS, served, server, TRANSPORT, transport, stdioOn, closed, sessionId, stdin,
                 tasks, pending, stdout, exchanges, log, errors, clock, issued>>

\* A client writes a request to the process's stdin.
ClientWrite ==
  /\ phase = "running" /\ issued < MaxRequests
  /\ \E req \in Requests(server, issued + 1) : stdin' = Append(stdin, req)
  /\ issued' = issued + 1
  /\ UNCHANGED <<build, call, answer, direct, ALLOWED_ORIGINS, served, server, TRANSPORT, phase, exitCode, transport, stdioOn, httpOn,
                 closed, sessionId, tasks, pending, stdout, exchanges, log, errors,
                 clock>>

\* The session receives a request from a transport: it remembers its
\* current transport for the response and schedules the handler.
Scheduled(req, via, exch) ==
  [req |-> req, via |-> via, captured |-> transport, exch |-> exch,
   closed |-> closed]

\* Mutant of ScheduleAll: the handler of the message read last is
\* scheduled first.
RECURSIVE ScheduleAllLastFirst(_, _)
ScheduleAllLastFirst(reqs, via) ==
  IF reqs = <<>> THEN <<>>
  ELSE ScheduleAllLastFirst(Tail(reqs), via) \o <<Scheduled(Head(reqs), via, 0)>>

RECURSIVE ScheduleAll(_, _)
ScheduleAll(reqs, via) ==
  IF reqs = <<>> THEN <<>>
  ELSE <<Scheduled(Head(reqs), via, 0)>> \o ScheduleAll(Tail(reqs), via)

\* Mutant of StdioData: stdin is read while the outcome of app.listen is
\* still open.
StdioDataBeforeListening ==
  /\ phase = "running" /\ stdioOn /\ tasks = <<>>
  /\ \E k \in 1..Len(stdin) :
        /\ tasks' = ScheduleAll(SubSeq(stdin, 1, k), "stdio")
        /\ stdin' = SubSeq(stdin, k + 1, Len(stdin))
  /\ UNCHANGED <<build, call, answer, direct, ALLOWED_ORIGINS, served, server, TRANSPORT, phase, exitCode, transport, stdioOn, httpOn,
                 closed, sessionId, pending, stdout, exchanges, log, errors, clock,
                 issued>>

\* stdin's data event: the stdio transport appends the chunk to its buffer
\* and delivers every complete message in it, one after the other.  The
\* event loop emits no data event before the outcome of app.listen (the
\* listening or the error event, both queued by listen itself) is known.
StdioData ==
  /\ phase = "running" /\ stdioOn /\ tasks = <<>>
  /\ httpOn # "pending"
  /\ \E k \in 1..Len(stdin) :
        /\ tasks' = ScheduleAll(SubSeq(stdin, 1, k), "stdio")
        /\ stdin' = SubSeq(stdin, k + 1, Len(stdin))
  /\ UNCHANGED <<build, call, answer, direct, ALLOWED_ORIGINS, served, server, TRANSPORT, phase, exitCode, transport, stdioOn, httpOn,
                 closed, sessionId, pending, stdout, exchanges, log, errors, clock,
                 issued>>

\* The first POST of a client (initialize, no session id): the HTTP
\* transport issues the session id.  One transport serves the process, so
\* a second initialize is refused and changes nothing.
HttpInitialize ==
  /\ phase = "running" /\ httpOn = "listening" /\ tasks = <<>>
  /\ sessionId = 0
  /\ sessionId' = 1
  /\ UNCHANGED <<build, call, answer, direct, ALLOWED_ORIGINS, served, server, TRANSPORT, phase, exitCode, transport, stdioOn, httpOn,
                 closed, stdin, tasks, pending, stdout, exchanges, log, errors,
                 clock, issued>>

\* app.all(HTTP_PATH): a POST with a request.  The transport answers 400
\* before a session exists and 404 for another session id; otherwise it
\* maps the request id to this exchange and delivers the request.
HttpPost ==
  /\ phase = "running" /\ httpOn = "listening" /\ tasks = <<>>
  /\ issued < MaxRequests
  /\ \E req \in Requests(server, issued + 1), sid \in {sessionId, sessionId + 1} :
        LET exch == Len(exchanges) + 1
            status == IF sessionId = 0 THEN 400
                      ELSE IF sid # sessionId THEN 404 ELSE 0
        IN /\ exchanges' = Append(exchanges,
                [req |-> req, sid |-> sid, status |-> status, body |-> <<>>])
           /\ IF status = 0
                THEN /\ pending' = [i \in DOMAIN pending \cup {req.id} |->
                                      IF i = req.id THEN exch ELSE pending[i]]
                     /\ tasks' = <<Scheduled(req, "http", exch)>>
                ELSE UNCHANGED <<pending, tasks>>
  /\ issued' = issued + 1
  /\ UNCHANGED <<build, call, answer, direct, ALLOWED_ORIGINS, served, server, TRANSPORT, phase, exitCode, transport, stdioOn, httpOn,
                 closed, sessionId, stdin, stdout, log, errors, clock>>

\* A DELETE with the session id: the HTTP transport closes, and its close
\* event closes the session, which drops its transport reference.
HttpDelete ==
  /\ phase = "running" /\ httpOn = "listening" /\ tasks = <<>>
  /\ sessionId # 0 /\ ~closed
  /\ closed' = TRUE
  /\ transport' = "none"
  /\ UNCHANGED <<build, call, answer, direct, ALLOWED_ORIGINS, served, server, TRANSPORT, phase, exitCode, stdioOn, httpOn, sessionId,
                 stdin, tasks, pending, stdout, exchanges, log, errors, clock,
                 issued>>

\* Mutant of Handle: the text of the last call-tool response is kept and
\* handed out again for the next call of the same tool.
HandleReusingLastResult(req, now) ==
  IF req.method = "tools/call"
    THEN IF /\ log # <<>>
            /\ log[Len(log)].req.method = "tools/call"
            /\ log[Len(log)].req.params.name = req.params.name
           THEN [response |-> log[Len(log)].response,
                 invoked |-> log[Len(log)].invoked, escaped |-> FALSE]
         ELSE CallToolHandler(server, req.params, now)
  ELSE [response |-> [tools |-> ListToolsHandler(server)],
        invoked |-> "none", escaped |-> FALSE]

\* What the handler of a request returns.
Handle(req, now) ==
  IF req.method = "tools/call" THEN CallToolHandler(server, req.params, now)
  ELSE [response |-> [tools |-> ListToolsHandler(server)],
        invoked |-> "none", escaped |-> FALSE]

\* The next scheduled handler runs, and its result is sent as the
\* response through the transport remembered for the request.  The stdio
\* transport writes it to stdout; the HTTP transport writes it to the
\* exchange mapped to the request id and fails without one, which the
\* session reports to onerror.
NextTask(queue) == Head(queue)
RestTasks(queue) == Tail(queue)

RunTask ==
  /\ phase = "running" /\ tasks # <<>>
  /\ LET task == NextTask(tasks)
         req == task.req
         handled == Handle(req, clock)
         message == [id |-> req.id, re |-> req.n, result |-> handled.response]
         routed == task.captured = "http" /\ req.id \in DOMAIN pending
         sentTo == IF task.captured = "stdio" THEN "stdio"
                   ELSE IF routed THEN "http" ELSE "none"
     IN /\ tasks' = RestTasks(tasks)
        /\ stdout' = IF sentTo = "stdio" THEN Append(stdout, message) ELSE stdout
        /\ exchanges' = IF sentTo = "http"
                          THEN [exchanges EXCEPT ![pending[req.id]].status = 200,
                                                 ![pending[req.id]].body = <<message>>]
                          ELSE exchanges
        /\ pending' = IF sentTo = "http"
                        THEN [i \in DOMAIN pending \ {req.id} |-> pending[i]]
                        ELSE pending
        /\ errors' = IF task.captured = "http" /\ ~routed THEN errors + 1 ELSE errors
        /\ log' = Append(log,
                     [req |-> req, via |-> task.via, afterClose |-> task.closed,
                      response |-> handled.response, invoked |-> handled.invoked,
                      escaped |-> handled.escaped, sentTo |-> sentTo,
                      exch |-> IF sentTo = "http" THEN pending[req.id] ELSE 0,
                      at |-> clock])
  /\ UNCHANGED <<build, call, answer, direct, ALLOWED_ORIGINS, served, server, TRANSPORT, phase, exitCode, transport, stdioOn, httpOn,
                 closed, sessionId, stdin, clock, issued>>

\* SIGINT: await this.server.close(); ...  close() closes the session's
\* current transport only; the handler goes on when close() has resolved.
Sigint ==
  /\ phase = "running" /\ tasks = <<>>
  /\ httpOn # "pending"
  /\ closed' = TRUE
  /\ transport' = "none"
  /\ stdioOn' = IF transport = "stdio" THEN FALSE ELSE stdioOn
  /\ phase' = "closing"
  /\ UNCHANGED <<build, call, answer, direct, ALLOWED_ORIGINS, served, server, TRANSPORT, exitCode, httpOn, sessionId, stdin, tasks,
                 pending, stdout, exchanges, log, errors, clock, issued>>

\* Mutant of ProcessExit: the handler does not wait for close().
ProcessExitAtOnce ==
  /\ phase = "running" /\ tasks = <<>> /\ httpOn # "pending" /\ ~closed
  /\ phase' = "exited"
  /\ exitCode' = 0
  /\ UNCHANGED <<build, call, answer, direct, ALLOWED_ORIGINS, served, server, TRANSPORT, transport, stdioOn, httpOn, closed,
                 sessionId, stdin, tasks, pending, stdout, exchanges, log,
                 errors, clock, issued>>

\* ... process.exit(0), the rest of the SIGINT handler.
ProcessExit ==
  /\ phase = "closing"
  /\ phase' = "exited"
  /\ exitCode' = 0
  /\ UNCHANGED <<build, call, answer, direct, ALLOWED_ORIGINS, served, server, TRANSPORT, transport, stdioOn, httpOn, closed,
                 sessionId, stdin, tasks, pending, stdout, exchanges, log,
                 errors, clock, issued>>

\* Time passes.
Tick ==
  /\ phase = "running" /\ tasks = <<>>
  /\ clock < MaxClock
  /\ clock' = clock + 1
  /\ UNCHANGED <<build, call, answer, direct, ALLOWED_ORIGINS, served, server, TRANSPORT, phase, exitCode, transport, stdioOn, httpOn,
                 closed, sessionId, stdin, tasks, pending, stdout, exchanges, log,
                 errors, issued>>

Next ==
  \/ Run
  \/ Listening
  \/ ListenError
  \/ ClientWrite
  \/ StdioData
  \/ HttpInitialize
  \/ HttpPost
  \/ HttpDelete
  \/ RunTask
  \/ Sigint
  \/ ProcessExit
  \/ Tick

Spec == Init /\ [][Next]_vars

\* The SIGINT handler is an async function: once close() has resolved, its
\* continuation is a queued microtask, and the event loop runs it.
FairSpec == Spec /\ WF_vars(ProcessExit)

\* ------------------------------------------------------ HTTP front end
\* The Express application of runOnHttp, request by request.
HTTP_PATH == "/mcp"
ALLOWED_HOSTS == {"127.0.0.1", "localhost"}

\* The option the server passes to StreamableHTTPServerTransport.  The
\* regex server passes false; the dual-transport date server has the line
\* commented out, and the transport's default for a missing option is
\* false.
enableDnsRebindingProtection(program) ==
  CASE program = "regex" -> FALSE
    [] program = "date" -> FALSE
    [] OTHER -> TRUE

\* allowedOrigins: ALLOWED_ORIGINS.includes("*") ? undefined : ALLOWED_ORIGINS
allowedOrigins(origins) == IF "*" \in origins THEN {} ELSE origins

\* Express matches a route path with or without a trailing slash.
RouteMatches(route, path) == path = route \/ path = route \o "/"

\* The route that answers the request.
RouteOf(request) ==
  IF request.method = "GET" /\ RouteMatches("/health", request.path) THEN "health"
  ELSE IF RouteMatches(HTTP_PATH, request.path) THEN "protocol"
  ELSE "none"

\* Mutant of health: the probe answers for the session.
healthOfSession ==
  IF closed THEN [status |-> 503, body |-> "closed\n"]
  ELSE [status |-> 200, body |-> "ok\n"]

\* app.get("/health"): res.status(200).send("ok\n")
health == [status |-> 200, body |-> "ok\n"]

\* Whether express.json has read the body before the route handler runs.
\* The older string server installs express.json for every path; the
\* others install jsonUnlessMcp after the health route, which compares
\* req.path with HTTP_PATH.
jsonUnlessMcp(program, request) ==
  /\ request.body.kind # "none"
  /\ IF program = "string_legacy" THEN TRUE
     ELSE RouteOf(request) # "health" /\ request.path # HTTP_PATH

\* StreamableHTTPServerTransport.validateRequestHeaders
validateRequestHeaders(program, origins, request) ==
  IF ~enableDnsRebindingProtection(program) THEN "ok"
  ELSE IF request.host \notin ALLOWED_HOSTS THEN "Invalid Host header"
  ELSE IF allowedOrigins(origins) # {} /\ request.origin \notin allowedOrigins(origins)
    THEN "Invalid Origin header"
  ELSE "ok"

\* StreamableHTTPServerTransport.validateSession
validateSession(request, sid) ==
  IF sid = 0 THEN 400
  ELSE IF request.sid = 0 THEN 400
  ELSE IF request.sid # sid THEN 404
  ELSE 200

\* transport.handleRequest(req, res), called without a parsed body: the
\* transport reads the raw request stream itself, which fails when
\* express.json has read it already.  `sid` is the transport's session id,
\* 0 before initialize.
handleRequest(program, origins, request, parsed, sid) ==
  IF validateRequestHeaders(program, origins, request) # "ok"
    THEN [status |-> 403, effect |-> "none"]
  ELSE IF request.method = "POST"
    THEN IF parsed THEN [status |-> 400, effect |-> "none"]
         ELSE IF request.body.kind = "initialize"
           THEN IF sid # 0 THEN [status |-> 400, effect |-> "none"]
                ELSE [status |-> 200, effect |-> "initialize"]
         ELSE IF validateSession(request, sid) # 200
           THEN [status |-> validateSession(request, sid), effect |-> "none"]
         ELSE [status |-> 200, effect |-> "deliver"]
  ELSE IF request.method = "DELETE"
    THEN IF validateSession(request, sid) # 200
           THEN [status |-> validateSession(request, sid), effect |-> "none"]
         ELSE [status |-> 200, effect |-> "close"]
  ELSE IF request.method = "GET"
    THEN [status |-> validateSession(request, sid), effect |-> "none"]
  ELSE [status |-> 405, effect |-> "none"]

\* app.all(HTTP_PATH): whether the route handler wraps handleRequest in
\* try/catch.  The older string server awaits it bare.
CatchesFault(program) == program # "string_legacy"

\* What the listener does with one request.  `fault` says whether
\* handleRequest throws, and if so, before or after it has sent headers.
Answer(program, origins, request, fault, sid) ==
  LET route == RouteOf(request)
      parsed == jsonUnlessMcp(program, request)
      handled == handleRequest(program, origins, request, parsed, sid)
  IN IF route = "health"
       THEN [route |-> route, parsed |-> parsed, status |-> health.status,
             body |-> health.body, effect |-> "none", escaped |-> FALSE]
     ELSE IF route = "none"
       THEN [route |-> route, parsed |-> parsed, status |-> 404,
             body |-> "", effect |-> "none", escaped |-> FALSE]
     ELSE IF fault = "beforeHeaders"
       THEN [route |-> route, parsed |-> parsed,
             status |-> IF CatchesFault(program) THEN 500 ELSE 0,
             body |-> "", effect |-> "none",
             escaped |-> ~CatchesFault(program)]
     ELSE [route |-> route, parsed |-> parsed, status |-> handled.status,
           body |-> "", effect |-> handled.effect,
           escaped |-> fault = "afterHeaders" /\ ~CatchesFault(program)]

\* The bodies of the requests the clients send: none, an initialize
\* request, or a list-tools request.
HttpBodies(n) ==
  {[kind |-> "none"], [kind |-> "initialize"]}
  \cup {[kind |-> "message", req |-> req] :
          req \in {r \in Requests(server, n) : r.method = "tools/list"}}

\* The requests the clients send.  An initialize request carries no
\* session id, the others carry the id the transport issues first.
HttpRequests(n) ==
  {[method |-> "GET", path |-> "/health", host |-> "localhost",
    origin |-> "http://localhost", sid |-> 0, body |-> [kind |-> "none"]]}
  \cup {[method |-> "POST", path |-> "/other", host |-> "localhost",
         origin |-> "http://localhost", sid |-> 0, body |-> [kind |-> "initialize"]]}
  \cup {[method |-> "DELETE", path |-> HTTP_PATH, host |-> "localhost",
         origin |-> "http://localhost", sid |-> 1, body |-> [kind |-> "none"]]}
  \cup {[method |-> "POST", path |-> path, host |-> host, origin |-> origin,
         sid |-> IF body.kind = "initialize" THEN 0 ELSE 1, body |-> body] :
          path \in {HTTP_PATH, HTTP_PATH \o "/"},
          host \in {"localhost", "evil.example"},
          origin \in {"http://localhost", "http://evil.example"},
          body \in HttpBodies(n) \ {[kind |-> "none"]}}

\* A transport fault is considered for requests that are in order
\* otherwise.
Faults(request) ==
  IF /\ RouteOf(request) = "protocol" /\ request.path = HTTP_PATH
     /\ request.host = "localhost" /\ request.origin = "http://localhost"
    THEN {"none", "beforeHeaders", "afterHeaders"}
  ELSE {"none"}

\* One HTTP request from its arrival to the end of the route handler.  A
\* fault that escapes the route handler is a rejected promise nobody
\* handles: the runtime either ends the process with status 1 or only
\* warns, and then the request stays unanswered.
HttpRequest ==
  /\ phase = "running" /\ httpOn = "listening" /\ tasks = <<>>
  /\ Len(served) < MaxExchanges
  /\ \E request \in HttpRequests(issued + 1) :
     \E fault \in Faults(request) :
     \E dies \in BOOLEAN :
        LET outcome == Answer(server, ALLOWED_ORIGINS, request, fault, sessionId)
            exch == Len(exchanges) + 1
            req == request.body.req
        IN /\ dies => outcome.escaped
           /\ served' = Append(served,
                [request |-> request, fault |-> fault, route |-> outcome.route,
                 parsed |-> outcome.parsed, status |-> outcome.status,
                 body |-> outcome.body, effect |-> outcome.effect,
                 escaped |-> outcome.escaped,
                 issued |-> IF outcome.effect = "initialize" THEN 1 ELSE 0])
           /\ sessionId' = IF outcome.effect = "initialize" THEN 1 ELSE sessionId
           /\ IF outcome.effect = "deliver"
                THEN /\ exchanges' = Append(exchanges,
                          [req |-> req, sid |-> request.sid, status |-> 0,
                           body |-> <<>>])
                     /\ pending' = [i \in DOMAIN pending \cup {req.id} |->
                                      IF i = req.id THEN exch ELSE pending[i]]
                     /\ tasks' = <<Scheduled(req, "http", exch)>>
                     /\ issued' = issued + 1
                ELSE UNCHANGED <<exchanges, pending, tasks, issued>>
           /\ IF outcome.effect = "close"
                THEN closed' = TRUE /\ transport' = "none"
                ELSE UNCHANGED <<closed, transport>>
           /\ IF dies
                THEN phase' = "exited" /\ exitCode' = 1
                ELSE UNCHANGED <<phase, exitCode>>
  /\ UNCHANGED <<build, call, answer, direct, ALLOWED_ORIGINS, server, TRANSPORT,
                 stdioOn, httpOn, stdin, stdout, log, errors, clock>>

\* A server started with the HTTP adapter, with either setting of the
\* allowed origins.
HttpInit ==
  /\ server \in Servers \ {"date_stdio"}
  /\ TRANSPORT = "http"
  /\ phase = "init"
  /\ exitCode = -1
  /\ transport = "none"
  /\ stdioOn = FALSE
  /\ httpOn = "off"
  /\ closed = FALSE
  /\ sessionId = 0
  /\ stdin = <<>>
  /\ tasks = <<>>
  /\ pending = EmptyObject
  /\ stdout = <<>>
  /\ exchanges = <<>>
  /\ log = <<>>
  /\ errors = 0
  /\ clock = 2
  /\ issued = 0
  /\ ALLOWED_ORIGINS \in {{"*"}, {"http://localhost"}}
  /\ served = <<>>
  /\ call = EmptyObject
  /\ answer = <<>>
  /\ direct = <<>>
  /\ build = "source"

HttpNext ==
  \/ Run
  \/ Listening
  \/ ListenError
  \/ HttpRequest
  \/ RunTask

HttpSpec == HttpInit /\ [][HttpNext]_vars

\* ------------------------------------------------- one call, looked at alone
\* The arguments of regex_replace calls: text, pattern and replacement
\* are given, flags are given or left out.
ReplaceArguments ==
  LET Required ==
        {[text |-> text, pattern |-> pattern, replacement |-> replacement] :
           text \in {<<"t", "e", "s", "t", " ", "t", "e", "s", "t", " ", "t", "e", "s", "t">>,
                     <<"n", "o", "n", "e">>},
           pattern \in {<<"t", "e", "s", "t">>, <<"t">>, <<"(">>},
           replacement \in {<<"e", "x", "a", "m">>, <<>>}}
  IN Required
     \cup {[text |-> r.text, pattern |-> r.pattern, replacement |-> r.replacement,
            flags |-> flags] :
             r \in Required, flags \in {<<>>, <<"g">>, <<"g", "g">>}}

\* The regex server and one regex_replace request.
ToolInit ==
  /\ server = "regex"
  /\ TRANSPORT = "stdio"
  /\ phase = "init"
  /\ exitCode = -1
  /\ transport = "none"
  /\ stdioOn = FALSE
  /\ httpOn = "off"
  /\ closed = FALSE
  /\ sessionId = 0
  /\ stdin = <<>>
  /\ tasks = <<>>
  /\ pending = EmptyObject
  /\ stdout = <<>>
  /\ exchanges = <<>>
  /\ log = <<>>
  /\ errors = 0
  /\ clock = 2
  /\ issued = 0
  /\ ALLOWED_ORIGINS = {"*"}
  /\ served = <<>>
  /\ call \in {[name |-> "regex_replace", arguments |-> a] : a \in ReplaceArguments}
  /\ answer = <<>>
  /\ direct = <<>>
  /\ build = "source"

\* The call-tool handler answers the request.
HandleCall ==
  /\ answer = <<>>
  /\ answer' = <<CallToolHandler(server, call, clock).response>>
  /\ UNCHANGED <<build, call, direct, ALLOWED_ORIGINS, served, server, TRANSPORT, phase,
                 exitCode, transport, stdioOn, httpOn, closed, sessionId, stdin,
                 tasks, pending, stdout, exchanges, log, errors, clock, issued>>

\* The tool function is applied to the arguments as the caller gave them.
ApplyTool ==
  /\ direct = <<>>
  /\ direct' = <<replace(call.arguments.text, call.arguments.pattern,
                         call.arguments.replacement,
                         IF Has(call.arguments, "flags")
                           THEN <<call.arguments.flags>> ELSE <<>>)>>
  /\ UNCHANGED <<build, call, answer, ALLOWED_ORIGINS, served, server, TRANSPORT, phase,
                 exitCode, transport, stdioOn, httpOn, closed, sessionId, stdin,
                 tasks, pending, stdout, exchanges, log, errors, clock, issued>>

ToolNext == HandleCall \/ ApplyTool

ToolSpec == ToolInit /\ [][ToolNext]_vars

\* ------------------------------------------- the tool functions, one call
\* The texts of at most n characters over two letters.
Alphabet == {"a", "b"}
Texts(n) == UNION {[1..k -> Alphabet] : k \in 0..n}

\* The operations string_transform is asked for; rot13 is none of its types.
Operations ==
  {[type |-> t] : t \in {"uppercase", "lowercase", "reverse", "trim", "rot13"}}
  \cup {[type |-> "trim", options |-> [type |-> t]] : t \in {"start", "end"}}

\* The rules string_validate is asked for; zip is none of its types, and
\* "(" is no regular expression.
Rules ==
  {[type |-> t] : t \in {"required", "length", "numeric", "alpha", "pattern", "zip"}}
  \cup {[type |-> "length", options |-> o] : o \in {[min |-> 2], [max |-> 1]}}
  \cup {[type |-> "pattern", options |-> [pattern |-> p]] : p \in {<<"a">>, <<"(">>}}

\* The arguments of the calls, tool by tool.
FunctionArguments(name) ==
  CASE name = "math_calculate" ->
         {[expression |-> e] :
            e \in {<<"2", " ", "+", " ", "3">>,
                   <<"2", " ", "+", " ", "+", " ", "3">>,
                   <<"2", "+", "*", "3">>,
                   <<"2", " ", "+", " ", "3", "a">>,
                   <<"2", "\t", "3">>,
                   <<>>,
                   <<" ", " ">>,
                   <<"5", " ", "/", " ", "0">>,
                   <<"(", "2">>,
                   <<"2", " ", "*", " ", "(", "3", " ", "-", " ", "4", ")">>,
                   <<"1", ".", "5", " ", "+", " ", "1", ".", "5">>}}
    [] name = "date_compare" ->
         LET Dates == {"2023-06-15T10:00:00Z", "2023-06-15T10:00:00.000Z",
                       "2030-01-01T00:00:00Z", "2030-01-01T00:00:00.000Z",
                       "garbage"}
         IN {[date1 |-> d1, date2 |-> d2] : d1 \in Dates, d2 \in Dates}
            \cup {[date1 |-> d1, date2 |-> d2, options |-> [absolute |-> TRUE]] :
                    d1 \in Dates, d2 \in Dates}
            \cup {[date1 |-> d1] : d1 \in Dates}
    [] name = "string_compare" ->
         {[str1 |-> a, str2 |-> b, method |-> "levenshtein"] :
            a \in Texts(MaxText), b \in Texts(MaxText)}
    [] name = "string_transform" ->
         LET text == UNION {[1..k -> {"a", "A", " "}] : k \in 0..MaxText}
             lists == UNION {[1..k -> Operations] : k \in 0..MaxOperations}
         IN {[text |-> t, operations |-> l] : t \in text, l \in lists}
            \cup {[text |-> t] : t \in text}
    [] name = "string_validate" ->
         LET text == UNION {[1..k -> {"a", "1", " "}] : k \in 0..MaxText}
             lists == UNION {[1..k -> Rules] : k \in 0..MaxRules}
         IN {[text |-> t, rules |-> l] : t \in text, l \in lists}
            \cup {[text |-> t] : t \in text}
    [] name = "math_sanitize_number" ->
         LET input == UNION {[1..k -> {"-", "1", ".", ",", "x", " "}] : k \in 0..MaxText}
         IN {[input |-> i] : i \in input}
            \cup {[input |-> i, options |-> [allowNegative |-> FALSE]] : i \in input}
    [] name = "math_statistics" ->
         LET elements == {[number |-> Fin(n, 1)] : n \in {-1, 0, 2}}
                         \cup {[string |-> s] : s \in {<<"2">>, <<"0", "x">>, <<"x">>}}
         IN {[numbers |-> l] : l \in UNION {[1..k -> elements] : k \in 0..MaxNumbers}}
            \cup {EmptyObject}
    [] name = "regex_split" ->
         LET Required == {[text |-> t, pattern |-> p] :
                            t \in UNION {[1..k -> {"a", ","}] : k \in 0..MaxText},
                            p \in {<<",">>, <<"a", ",">>, <<"(">>}}
         IN Required
            \cup {r @@ [limit |-> l] : r \in Required, l \in 1..MaxLimit}
            \cup {r @@ [flags |-> <<"g">>, limit |-> l] : r \in Required, l \in 1..MaxLimit}
    [] name = "regex_match" ->
         LET Required ==
               {[text |-> text, pattern |-> pattern] :
                  text \in {<<"a", "b", " ", "a", "b">>, <<"x", "a", "b">>, <<"x", "y">>},
                  pattern \in {<<"a", "b">>, <<"b">>, <<"(">>}}
         IN Required
            \cup {[text |-> r.text, pattern |-> r.pattern, flags |-> flags] :
                    r \in Required, flags \in {<<>>, <<"g">>, <<"y">>}}

\* The tools each server is called with.
FunctionNames(program) ==
  CASE program = "math" -> {"math_calculate", "math_sanitize_number", "math_statistics"}
    [] program = "regex" -> {"regex_match", "regex_split"}
    [] program = "date" -> {"date_compare"}
    [] program = "string" -> {"string_compare", "string_transform", "string_validate"}

\* A server with the build of its tools in place, and one call-tool
\* request with arguments.
CallInit ==
  /\ server \in {"math", "regex", "date", "string"}
  /\ build \in (IF server \in {"math", "regex"} THEN {"source", "compiled"}
                ELSE {"source"})
  /\ call \in UNION {{[name |-> name, arguments |-> a] : a \in FunctionArguments(name)} :
                       name \in FunctionNames(server)}
  /\ TRANSPORT = "stdio"
  /\ phase = "init"
  /\ exitCode = -1
  /\ transport = "none"
  /\ stdioOn = FALSE
  /\ httpOn = "off"
  /\ closed = FALSE
  /\ sessionId = 0
  /\ stdin = <<>>
  /\ tasks = <<>>
  /\ pending = EmptyObject
  /\ stdout = <<>>
  /\ exchanges = <<>>
  /\ log = <<>>
  /\ errors = 0
  /\ clock = 2
  /\ issued = 0
  /\ ALLOWED_ORIGINS = {"*"}
  /\ served = <<>>
  /\ answer = <<>>
  /\ direct = <<>>

CallNext == HandleCall

CallSpec == CallInit /\ [][CallNext]_vars

\* ================================================================ claims
CallEntries == {i \in 1..Len(log) : log[i].req.method = "tools/call"}
ListEntries == {i \in 1..Len(log) : log[i].req.method = "tools/list"}

HasArguments(i) == Has(log[i].req.params, "arguments")
NameOf(i) == log[i].req.params.name
IsErrorSet(response) == Has(response, "isError") /\ response.isError = TRUE

\* The ToolResult a call-tool response carries: its one text item, parsed.
ToolResultOf(response) == JSONparse(response.content[1].text)

\* What the try block of the handler did with the request of entry i.
Tried(i) == callTool(server, NameOf(i), log[i].req.params.arguments, log[i].at)

C2_UnknownToolExact ==
  \A i \in CallEntries :
    (HasArguments(i) /\ NameOf(i) \notin CaseLabels(server)) =>
      /\ IsErrorSet(log[i].response)
      /\ ToolResultOf(log[i].response) =
           [success |-> FALSE, error |-> "Unknown tool: " \o NameOf(i)]

\* C2 amended: with arguments present and a name outside the registry, the
\* response has isError = true and the ToolResult {success:false,
\* error:"Tool execution failed: Unknown tool: <name>"}: the default case
\* throws, and the catch block prefixes the message.
C2_UnknownToolWrapped ==
  \A i \in CallEntries :
    (HasArguments(i) /\ NameOf(i) \notin CaseLabels(server)) =>
      /\ IsErrorSet(log[i].response)
      /\ ToolResultOf(log[i].response) =
           [success |-> FALSE,
            error |-> "Tool execution failed: Unknown tool: " \o NameOf(i)]
      /\ log[i].invoked = "none"

C2_Witness ==
  \E i \in CallEntries :
    /\ HasArguments(i) /\ log[i].req.params.arguments = EmptyObject
    /\ NameOf(i) = "does_not_exist"
    /\ IsErrorSet(log[i].response)

\* C3: isError is set on a call-tool response exactly when the invocation
\* failed (arguments absent, name unknown, or the tool function threw); a
\* ToolResult with success:false that a registered tool returns is
\* delivered as it is, with isError unset.
C3_IsErrorIffInvocationFailed ==
  \A i \in CallEntries :
    /\ IsErrorSet(log[i].response) <=>
         \/ ~HasArguments(i)
         \/ NameOf(i) \notin CaseLabels(server)
         \/ Tried(i).threw
    /\ (HasArguments(i) /\ ~Tried(i).threw /\ ~Tried(i).value.success) =>
         /\ ~Has(log[i].response, "isError")
         /\ ToolResultOf(log[i].response) = Tried(i).value

C3_Witness ==
  \E i \in CallEntries :
    /\ HasArguments(i) /\ NameOf(i) = "math_calculate"
    /\ log[i].req.params.arguments.expression = <<"5", " ", "/", " ", "0">>
    /\ ~ToolResultOf(log[i].response).success
    /\ ~Has(log[i].response, "isError")

\* C4: the call handler returns a response for every request and no
\* exception leaves it; when the tool function throws, the response has
\* isError = true and the ToolResult {success:false,
\* error:"Tool execution failed: <message>"}.
C4_HandlerNeverThrows ==
  \A i \in CallEntries :
    /\ ~log[i].escaped
    /\ Has(log[i].response, "content")
    /\ (HasArguments(i) /\ Tried(i).threw) =>
         /\ IsErrorSet(log[i].response)
         /\ ToolResultOf(log[i].response) =
              [success |-> FALSE,
               error |-> "Tool execution failed: " \o Tried(i).message]

C4_Witness ==
  \E i \in CallEntries :
    /\ HasArguments(i) /\ NameOf(i) = "regex_validate"
    /\ log[i].invoked = "regex_validate"
    /\ Tried(i).threw
    /\ IsErrorSet(log[i].response)
    /\ phase = "running"

\* C5: every call-tool response carries exactly one text item whose text
\* parses to an object with a boolean `success`; with success true it has
\* `result` and no `error`, with success false it has a non-empty `error`
\* and no `result`.
WellFormedToolResult(r) ==
  /\ Has(r, "success")
  /\ r.success \in BOOLEAN
  /\ r.success => (Has(r, "result") /\ ~Has(r, "error"))
  /\ ~r.success => (Has(r, "error") /\ r.error # "" /\ ~Has(r, "result"))

C5_UniformEnvelope ==
  \A i \in CallEntries :
    /\ Len(log[i].response.content) = 1
    /\ log[i].response.content[1].type = "text"
    /\ WellFormedToolResult(ToolResultOf(log[i].response))

C5_Witness ==
  \E i \in CallEntries :
    /\ HasArguments(i) /\ NameOf(i) = "date_validate"
    /\ ToolResultOf(log[i].response).success
    /\ ~ToolResultOf(log[i].response).result.isValid

\* C6: list-tools returns the same ordered sequence of descriptors every
\* time, whatever list-tools and call-tool requests (failing or not, on
\* either transport) were handled before it, and no two descriptors of it
\* share a name.
C6_ListToolsStable ==
  \A i \in ListEntries :
    /\ Has(log[i].response, "tools")
    /\ \A j \in ListEntries : log[j].response.tools = log[i].response.tools
    /\ \A a, b \in 1..Len(log[i].response.tools) :
         a # b => log[i].response.tools[a].name # log[i].response.tools[b].name

C6_Witness ==
  /\ Len(log) = 2
  /\ log[1].req.method = "tools/call" /\ IsErrorSet(log[1].response)
  /\ log[2].req.method = "tools/list"
  /\ log[1].via # log[2].via

\* C7 as stated: a call-tool request that arrives after the session was
\* closed is not dispatched to a tool function and gets no tool result.
C7_NothingServicedAfterClosed ==
  \A i \in CallEntries :
    log[i].afterClose => (log[i].invoked = "none" /\ log[i].sentTo = "none")

\* C8 as stated: in `both` mode every request is answered on the
\* transport that delivered it.
C8_AnsweredOnDeliveringTransport ==
  TRANSPORT = "both" =>
    \A i \in 1..Len(log) : ~log[i].afterClose => log[i].sentTo = log[i].via

StdioEntries == {i \in 1..Len(log) : log[i].via = "stdio"}

ContentOf(i) ==
  [key \in DOMAIN ToolResultOf(log[i].response) \ {"metadata"} |->
     ToolResultOf(log[i].response)[key]]

SameCall(i, j) == log[i].req.params = log[j].req.params

\* The tools whose functions read the clock (new Date()).
ReadsClock == {"date_info", "date_validate", "date_parse"}

----------------------------------------------------------------------------
\* A startup fault has occurred: run() attached the HTTP adapter and the
\* listener could not bind its port.
StartupFault ==
  phase # "init" /\ "http" \in Attaches(server, TRANSPORT) /\ httpOn = "off"

----------------------------------------------------------------------------
\* C18: when SIGINT arrives while the server is ready (stdio, HTTP or
\* both attached, with or without requests waiting), the session's close
\* has completed before the process exits, and the process eventually
\* exits with status 0.
C18_ClosesThenExitsZero ==
  /\ []((phase = "exited" /\ exitCode = 0) => closed)
  /\ [](phase = "closing" => closed)
  /\ (phase = "closing") ~> (phase = "exited" /\ exitCode = 0)

\* SIGINT was handled in "both" mode with a request still unread on stdin
\* and another one already answered, and the process has exited.
C18_Witness ==
  /\ phase = "exited" /\ exitCode = 0 /\ closed
  /\ TRANSPORT = "both" /\ server = "math"
  /\ stdin # <<>> /\ log # <<>>

----------------------------------------------------------------------------
\* C19: the mode selector alone decides the attached adapters.  While the
\* process runs, stdio is attached exactly under "stdio" and "both" and an
\* HTTP listener exists exactly under "http" and "both"; no request is
\* read from stdin under "http" and none arrives over HTTP under "stdio".
C19_SelectorDecidesAdapters ==
  /\ phase = "running" =>
       /\ stdioOn = (TRANSPORT \in {"stdio", "both"})
       /\ (httpOn # "off") = (TRANSPORT \in {"http", "both"})
  /\ \A i \in DOMAIN log :
       /\ log[i].via = "stdio" => TRANSPORT # "http"
       /\ log[i].via = "http" => TRANSPORT # "stdio"

----------------------------------------------------------------------------
\* The requests the health route answered.
HealthEntries == {i \in DOMAIN served : served[i].route = "health"}

\* The step serves a request on the health route.
HealthStep ==
  /\ Len(served') = Len(served) + 1
  /\ served'[Len(served')].route = "health"

\* The state of the protocol session and of its transports.
session == <<sessionId, closed, transport, tasks, pending, exchanges, log,
             stdout, errors>>

----------------------------------------------------------------------------
\* The requests the protocol route took.
ProtocolEntries == {i \in DOMAIN served : served[i].route = "protocol"}

\* The request's Host header is not an allowed host, or the allowed
\* origins are a list and its Origin header is not in the list.
Disallowed(request) ==
  \/ request.host \notin ALLOWED_HOSTS
  \/ "*" \notin ALLOWED_ORIGINS /\ request.origin \notin ALLOWED_ORIGINS

\* C13: in every server a request to the protocol path with a disallowed
\* Host or Origin header is rejected, and nothing of it reaches the
\* session.
C13_DisallowedRejected ==
  \A i \in ProtocolEntries :
    Disallowed(served[i].request) =>
      served[i].status = 403 /\ served[i].effect = "none"

----------------------------------------------------------------------------
\* A client opens a conversation: an initialize request without session
\* id, in order otherwise, on the protocol path.
OpensConversation(i) ==
  /\ served[i].request.method = "POST"
  /\ served[i].request.path = HTTP_PATH
  /\ served[i].request.body.kind = "initialize"
  /\ served[i].request.sid = 0
  /\ ~Disallowed(served[i].request)
  /\ served[i].fault = "none"

\* C14: every new conversation is issued a session id, different from the
\* ids issued before; a request that carries an issued id is not issued
\* another one.
C14_FreshSessionPerConversation ==
  \A i \in DOMAIN served :
    /\ OpensConversation(i) =>
         /\ served[i].status = 200 /\ served[i].issued # 0
         /\ \A j \in 1..(i - 1) : served[j].issued # served[i].issued
    /\ served[i].request.sid # 0 => served[i].issued = 0

----------------------------------------------------------------------------
\* C15: the body of a request the protocol handler receives has not been
\* read by the JSON middleware, and the body of a request on any other
\* path has.
C15_JsonParsingOffProtocolPath ==
  \A i \in DOMAIN served :
    /\ served[i].route = "protocol" => ~served[i].parsed
    /\ (served[i].route # "protocol" /\ served[i].request.body.kind # "none")
         => served[i].parsed

----------------------------------------------------------------------------
\* C16: a request on the protocol path whose handling raises a transport
\* fault is answered 500 when no headers were sent yet, the fault stays
\* inside the route handler, and the process goes on running.
C16_FaultContained ==
  \A i \in ProtocolEntries :
    served[i].fault # "none" =>
      /\ ~served[i].escaped
      /\ served[i].fault = "beforeHeaders" => served[i].status = 500
      /\ ~(phase = "exited" /\ exitCode = 1)

----------------------------------------------------------------------------
\* C20: a default is applied only when the caller leaves the optional
\* argument out, and a value the caller gives reaches the tool function
\* as it is: the handler's answer to a regex_replace call is the result
\* of RegexTools.replace on the caller's arguments.  With flags "" on
\* "test test test", pattern "test" and replacement "exam", only the first
\* occurrence is replaced and changeCount is 1.
C20_SuppliedArgumentUnchanged ==
  (answer # <<>> /\ direct # <<>>) =>
    /\ ToolResultOf(answer[1]) = direct[1]
    /\ (/\ Has(call.arguments, "flags") /\ call.arguments.flags = <<>>
        /\ ToolResultOf(answer[1]).success
        /\ MatchesFrom(call.arguments.text, call.arguments.pattern, 1) # <<>>)
         => ToolResultOf(answer[1]).result.changeCount = 1

----------------------------------------------------------------------------
\* The names list-tools returns.
Listed(program) ==
  {ListToolsHandler(program)[k].name : k \in 1..Len(ListToolsHandler(program))}

\* C24: in each server the names list-tools returns are the names the
\* call-tool handler dispatches to a tool function.  A call with
\* arguments reaches a tool function exactly when a list-tools response
\* holds its name, and is answered "Unknown tool" exactly when none does.
C24_ListedIffDispatched ==
  /\ Listed(server) = CaseLabels(server)
  /\ \A i \in CallEntries :
       HasArguments(i) =>
         /\ (NameOf(i) \in Listed(server)) = (log[i].invoked = NameOf(i))
         /\ (NameOf(i) \in Listed(server))
              = ~(Tried(i).threw /\ Tried(i).message = "Unknown tool: " \o NameOf(i))
         /\ \A j \in ListEntries :
              (\E k \in 1..Len(log[j].response.tools) :
                 log[j].response.tools[k].name = NameOf(i))
                = (log[i].invoked # "none")

\* list-tools was answered, and then a call of a listed name with
\* arguments was dispatched.
C24_Witness ==
  /\ Len(log) = 2
  /\ log[1].req.method = "tools/list"
  /\ log[2].req.method = "tools/call"
  /\ Has(log[2].req.params, "arguments")
  /\ log[2].req.params.name \in Listed(server)
  /\ log[2].invoked = log[2].req.params.name

----------------------------------------------------------------------------
\* The handler has answered a call of the tool.
Answered(name) == answer # <<>> /\ call.name = name

\* The expression holds a character that is not allowed, is empty or
\* blank, or has two operator characters in a row once the blanks are
\* taken out.
Unfit(e) ==
  \/ \E i \in 1..Len(e) :
       e[i] \notin {"0", "1", "2", "3", "4", "5", "6", "7", "8", "9",
                    "+", "-", "*", "/", "(", ")", ".", " "}
  \/ \A i \in 1..Len(e) : e[i] \in {" ", "\t"}
  \/ \E i, j \in 1..Len(e) :
       /\ i < j
       /\ e[i] \in {"+", "-", "*", "/"} /\ e[j] \in {"+", "-", "*", "/"}
       /\ \A k \in (i + 1)..(j - 1) : e[k] \in {" ", "\t"}

\* C23: math_calculate hands no expression to the evaluator that holds a
\* character other than digits, + - * / ( ) . and space, that is empty or
\* blank, or that has consecutive operators once the blanks are removed,
\* and answers success:false in each of these cases.
C23_UnfitNeverEvaluated ==
  Answered("math_calculate") =>
    (Unfit(call.arguments.expression) =>
       /\ PassedToEvaluator(build = "compiled", call.arguments) = <<>>
       /\ ~ToolResultOf(answer[1]).success)

----------------------------------------------------------------------------
\* The leftmost match of the pattern in the text as a regex with these
\* flags finds it from the start of the text.
Leftmost(arguments) ==
  Exec(arguments.text, arguments.pattern,
       IF Has(arguments, "flags") THEN arguments.flags ELSE <<>>, 0)

\* C21: for every text, valid pattern and flags, g and y included,
\* regex_match reports isMatch true exactly when the pattern matches in
\* the text; then firstMatch is the text of the leftmost match and index
\* its position, and otherwise firstMatch is null and index is -1.
C21_FirstMatchIsLeftmost ==
  (Answered("regex_match") /\ ToolResultOf(answer[1]).success) =>
    LET r == ToolResultOf(answer[1]).result
    IN /\ r.isMatch = Leftmost(call.arguments).found
       /\ r.isMatch => (r.firstMatch = <<call.arguments.pattern>>
                        /\ r.index = Leftmost(call.arguments).index)
       /\ ~r.isMatch => (r.firstMatch = <<>> /\ r.index = -1)

----------------------------------------------------------------------------
\* C22: for two valid dates date_compare sets exactly one of equal,
\* date1IsEarlier and date2IsEarlier; equal is set exactly when the two
\* dates are the same instant, and then differences.milliseconds is 0.
C22_ExactlyOneOrdering ==
  (Answered("date_compare") /\ ToolResultOf(answer[1]).success) =>
    LET r == ToolResultOf(answer[1]).result
        c == r.comparison
        t1 == NewDate(call.arguments.date1).t
        t2 == NewDate(call.arguments.date2).t
    IN /\ Cardinality({k \in {"equal", "date1IsEarlier", "date2IsEarlier"} : c[k]}) = 1
       /\ c.equal = (t1 = t2)
       /\ c.date1IsEarlier = (t1 < t2)
       /\ c.equal => r.differences.milliseconds = 0

\* Two texts of the same instant were compared.
C22_Witness ==
  /\ Answered("date_compare")
  /\ call.arguments.date1 = "2023-06-15T10:00:00Z"
  /\ call.arguments.date2 = "2023-06-15T10:00:00.000Z"
  /\ ToolResultOf(answer[1]).success
  /\ ToolResultOf(answer[1]).result.comparison.equal

----------------------------------------------------------------------------
\* The texts one insertion, deletion or substitution of a character away
\* from s, no longer than n.
OneEdit(s, n) ==
  {SubSeq(s, 1, k - 1) \o SubSeq(s, k + 1, Len(s)) : k \in 1..Len(s)}
  \cup {[s EXCEPT ![k] = c] : k \in 1..Len(s), c \in Alphabet}
  \cup (IF Len(s) < n
          THEN {SubSeq(s, 1, k) \o <<c>> \o SubSeq(s, k + 1, Len(s)) :
                  k \in 0..Len(s), c \in Alphabet}
          ELSE {})

\* The least number of edits that turn a text of `reached` into b, given
\* that k edits lead from a to the texts of `reached`.
RECURSIVE EditsFrom(_, _, _, _)
EditsFrom(reached, b, k, n) ==
  IF b \in reached THEN k
  ELSE EditsFrom(reached \cup UNION {OneEdit(s, n) : s \in reached}, b, k + 1, n)

MinimumEdits(a, b) == EditsFrom({a}, b, 0, Max(Len(a), Len(b)))

\* C25: for all strings a and b, empty ones included, string_compare with
\* method levenshtein reports as distance the least number of insertions,
\* deletions and substitutions of one character that turn a into b; the
\* distance is 0 exactly when a = b, and the same for (b, a).
C25_LevenshteinIsMinimumEdits ==
  (Answered("string_compare") /\ call.arguments.method = "levenshtein") =>
    LET a == call.arguments.str1
        b == call.arguments.str2
        r == ToolResultOf(answer[1])
    IN /\ r.success
       /\ r.result.comparison.distance = MinimumEdits(a, b)
       /\ (r.result.comparison.distance = 0) = (a = b)
       /\ r.result.comparison.distance = calculateLevenshteinDistance(b, a)

\* A comparison that needs a substitution and an insertion, and one with
\* an empty string.
C25_Witness ==
  /\ Answered("string_compare")
  /\ call.arguments.str1 = <<"a", "b">>
  /\ call.arguments.str2 = <<"b", "b", "a">>
  /\ ToolResultOf(answer[1]).result.comparison.distance = 2

----------------------------------------------------------------------------
\* The operations a call of string_transform is given.
Given(arguments) ==
  IF Has(arguments, "operations") THEN arguments.operations ELSE <<>>

\* C26: string_transform applies the operations in the given order, each to
\* the output of the one before: a successful result has one entry of
\* transformations per operation, of its type; the first entry's before is
\* the text, every later entry's before is the after of the entry before
\* it, every after is what the operation makes of the before, and final is
\* the last after (the text for the empty list).  With an operation of
\* unknown type the result is success: false and has no result member.
C26_OperationsChained ==
  Answered("string_transform") =>
    LET text == call.arguments.text
        operations == Given(call.arguments)
        r == ToolResultOf(answer[1])
        known == \A i \in 1..Len(operations) : Switched(text, operations[i]) # <<>>
    IN /\ r.success = known
       /\ ~known => ~Has(r, "result")
       /\ known =>
            LET entries == r.result.transformations
            IN /\ Len(entries) = Len(operations)
               /\ \A i \in 1..Len(entries) :
                    /\ entries[i].type = operations[i].type
                    /\ entries[i].before = IF i = 1 THEN text ELSE entries[i - 1].after
                    /\ <<entries[i].after>> = Switched(entries[i].before, operations[i])
               /\ r.result.final = IF entries = <<>> THEN text
                                   ELSE entries[Len(entries)].after

\* Two operations that both change the text, the second one the output of
\* the first.
C26_Witness ==
  /\ Answered("string_transform")
  /\ call.arguments.text = <<" ", "a">>
  /\ Given(call.arguments) = <<[type |-> "trim"], [type |-> "uppercase"]>>
  /\ ToolResultOf(answer[1]).result.final = <<"A">>
  /\ ToolResultOf(answer[1]).result.totalChanges = 2

\* An unknown type after an operation that was applied.
C26_WitnessUnknown ==
  /\ Answered("string_transform")
  /\ Given(call.arguments) = <<[type |-> "reverse"], [type |-> "rot13"]>>
  /\ ~ToolResultOf(answer[1]).success

----------------------------------------------------------------------------
\* The rules a call of string_validate is given.
Supplied(arguments) == IF Has(arguments, "rules") THEN arguments.rules ELSE <<>>

\* C27: whenever string_validate answers success: true, passedRules +
\* failedRules = totalRules = the number of rules of the call, and allValid
\* is true exactly when failedRules is 0.
C27_RuleCountsAddUp ==
  (Answered("string_validate") /\ ToolResultOf(answer[1]).success) =>
    LET r == ToolResultOf(answer[1]).result
    IN /\ r.passedRules + r.failedRules = r.totalRules
       /\ r.totalRules = Len(Supplied(call.arguments))
       /\ r.allValid = (r.failedRules = 0)

\* A rule that passes after one that fails.
C27_Witness ==
  /\ Answered("string_validate")
  /\ call.arguments.text = <<"a">>
  /\ Supplied(call.arguments) = <<[type |-> "numeric"], [type |-> "alpha"]>>
  /\ ToolResultOf(answer[1]).success
  /\ ToolResultOf(answer[1]).result.passedRules = 1
  /\ ToolResultOf(answer[1]).result.failedRules = 1
  /\ ~ToolResultOf(answer[1]).result.allValid

\* The empty list of rules.
C27_WitnessNoRules ==
  /\ Answered("string_validate")
  /\ Has(call.arguments, "rules")
  /\ call.arguments.rules = <<>>
  /\ ToolResultOf(answer[1]).result.allValid

----------------------------------------------------------------------------
\* The parts with the separator between each two of them.
RECURSIVE Joined(_, _)
Joined(parts, separator) ==
  IF Len(parts) = 1 THEN parts[1]
  ELSE parts[1] \o separator \o Joined(Tail(parts), separator)

\* C28: regex_split with a limit L >= 1 that succeeds splits at the first
\* L - 1 matches of the separator only and keeps the whole rest of the text
\* as the last part: the number of parts is min(L, number of matches + 1),
\* and the parts joined with the separators they were cut at are the text.
C28_LimitKeepsRemainder ==
  (/\ Answered("regex_split")
   /\ Has(call.arguments, "limit")
   /\ ToolResultOf(answer[1]).success) =>
    LET text == call.arguments.text
        separator == call.arguments.pattern
        L == call.arguments.limit
        parts == ToolResultOf(answer[1]).result.parts
    IN /\ Len(parts) = Min(L, Len(MatchesFrom(text, separator, 1)) + 1)
       /\ ToolResultOf(answer[1]).result.count = Len(parts)
       /\ Joined(parts, separator) = text

\* The claim with the server built from the TypeScript sources.
C28_HoldsForSource == build = "source" => C28_LimitKeepsRemainder

----------------------------------------------------------------------------
\* C29: with the default options the sanitized string of
\* math_sanitize_number holds at most one "-", and only as its first
\* character, and it starts with "-" exactly when the input holds an odd
\* number of "-".
C29_SignByParity ==
  (Answered("math_sanitize_number") /\ ~Has(call.arguments, "options")) =>
    LET input == call.arguments.input
        sanitized == ToolResultOf(answer[1]).result.sanitized
    IN /\ ToolResultOf(answer[1]).success
       /\ \A i \in 2..Len(sanitized) : sanitized[i] # "-"
       /\ (sanitized # <<>> /\ sanitized[1] = "-")
            = (Cardinality({i \in 1..Len(input) : input[i] = "-"}) % 2 = 1)

\* Two signs cancel each other, wherever they are.
C29_Witness ==
  /\ Answered("math_sanitize_number")
  /\ ~Has(call.arguments, "options")
  /\ call.arguments.input = <<"-", "1", "-">>
  /\ ToolResultOf(answer[1]).result.sanitized = <<"1">>

\* Three signs leave one.
C29_WitnessOdd ==
  /\ Answered("math_sanitize_number")
  /\ ~Has(call.arguments, "options")
  /\ call.arguments.input = <<"-", "-", "-">>
  /\ ToolResultOf(answer[1]).result.sanitized = <<"-">>

----------------------------------------------------------------------------
\* The elements of the call that are finite numbers, strings parsed.
FiniteElements(arguments) ==
  IF ~Has(arguments, "numbers") THEN <<>>
  ELSE SelectSeq([i \in 1..Len(arguments.numbers) |->
                    IF Has(arguments.numbers[i], "string")
                      THEN parseFloat(arguments.numbers[i].string)
                    ELSE arguments.numbers[i].number],
                 LAMBDA x : x.k = "fin")

\* How often the value v is in the sequence s.
Occurrences(s, v) == Cardinality({i \in 1..Len(s) : s[i] = v})

C30_WitnessNone ==
  /\ Answered("math_statistics")
  /\ call.arguments = [numbers |-> <<[string |-> <<"x">>]>>]
  /\ ~ToolResultOf(answer[1]).success
====
